---- MODULE Spec2Model ----
(***************************************************************************)
(* A model of the methodology-driven plan synthesis engine of the          *)
(* training planner: the rule-expression evaluator and safety-gate         *)
(* validator (src/src/validator.py), the fragility calculator              *)
(* (src/src/fragility.py), the training plan generator                     *)
(* (src/src/planner.py) and the sensitivity analyzer                       *)
(* (src/src/sensitivity.py).                                               *)
(*                                                                         *)
(* Python strings are modelled as sequences of one-character strings, so   *)
(* that the substring tests, splits and numeric parses of the rule         *)
(* language are computed rather than assumed.  Python floats are modelled  *)
(* as exact fractions: n/d with d a power of ten in the rule language, a    *)
(* fixed denominator in the fragility score, reduced fractions in the plan *)
(* generator.  The rounding of binary floating point is not modelled: where *)
(* the code truncates a product such as minutes * 0.35 the model truncates *)
(* the exact product, which can differ from the code by one minute.  The   *)
(* text of workout descriptions and the "random" rotation strategy of the  *)
(* session templates are not modelled.                                     *)
(***************************************************************************)
EXTENDS Integers, Sequences, FiniteSets, TLC

VARIABLES
    methodology,   \* the MethodologyModelCard the components were built with
    heap,          \* object store: reference -> UserProfile value
    caller,        \* the reference the caller holds to its profile
    validation,    \* the last ValidationResult returned by validate() (or none/raised)
    ruleCall,      \* the last call of the rule-expression evaluator and its outcome
    lookup,        \* the last call of _get_user_value and its outcome
    fragility,     \* the last outcome of FragilityCalculator.calculate()
    planner,       \* the TrainingPlanGenerator instance (or none / construction raised)
    plan,          \* the outcome of the last generate() call
    firstPlan,     \* the outcome of the first generate() call on the current planner
    analyzer,      \* the SensitivityAnalyzer instance
    sens,          \* the modify_assumption() calls made: their number, the outcome
                   \* of the last one, and the profile the analyzer was given
    calls,         \* number of operations performed (bounded by MaxCalls)
    recovery,      \* the _calculate_recovery_volume_multiplier calls made: the
                   \* arguments and the multiplier returned, in call order
    sleepCalls,    \* the _calculate_sleep_deviation_penalty calls made: the
                   \* sleep_hours given and the penalty returned, in call order
    phaseCalls,    \* the _determine_phases calls made: the arguments and the
                   \* phase durations returned or the exception raised
    hiCalls        \* the _select_spaced_hi_days calls made: the days and count given
                   \* and the days selected

vars == <<methodology, heap, caller, validation, ruleCall, lookup, fragility,
          planner, plan, firstPlan, analyzer, sens, calls, recovery,
          sleepCalls,
          phaseCalls,
          hiCalls>>

-----------------------------------------------------------------------------
(* Python str operations on character sequences.                           *)

Whitespace == {" "}

\* sub occurs in s at position i
MatchAt(s, sub, i) ==
    /\ i >= 1
    /\ i + Len(sub) - 1 <= Len(s)
    /\ \A k \in 1..Len(sub) : s[i + k - 1] = sub[k]

\* `sub in s` for a non-empty sub
Contains(s, sub) == \E i \in 1..Len(s) : MatchAt(s, sub, i)

\* s.startswith(p)
StartsWith(s, p) == MatchAt(s, p, 1)

\* index of the first occurrence of sub in s at or after i, 0 when there is none
FindFrom(s, sub, i) ==
    IF \E j \in i..Len(s) : MatchAt(s, sub, j)
    THEN CHOOSE j \in i..Len(s) :
            /\ MatchAt(s, sub, j)
            /\ \A k \in i..(j - 1) : ~MatchAt(s, sub, k)
    ELSE 0

RECURSIVE SplitFrom(_, _, _)
SplitFrom(s, sep, i) ==
    LET Cut(j) == IF j = 0
                  THEN << SubSeq(s, i, Len(s)) >>
                  ELSE << SubSeq(s, i, j - 1) >> \o SplitFrom(s, sep, j + Len(sep))
    IN  Cut(FindFrom(s, sep, i))

\* s.split(sep)
Split(s, sep) == SplitFrom(s, sep, 1)

\* s.count(sub), non-overlapping occurrences
Count(s, sub) == Len(Split(s, sub)) - 1

RECURSIVE Join(_, _)
Join(parts, glue) ==
    IF Len(parts) = 0 THEN <<>>
    ELSE IF Len(parts) = 1 THEN parts[1]
    ELSE parts[1] \o glue \o Join(Tail(parts), glue)

\* s.replace(old, new)
Replace(s, old, new) == Join(Split(s, old), new)

RECURSIVE LStrip(_, _)
LStrip(s, cs) == IF s # <<>> /\ Head(s) \in cs THEN LStrip(Tail(s), cs) ELSE s

RECURSIVE RStrip(_, _)
RStrip(s, cs) ==
    IF s # <<>> /\ s[Len(s)] \in cs THEN RStrip(SubSeq(s, 1, Len(s) - 1), cs) ELSE s

\* s.strip(chars)
StripChars(s, cs) == RStrip(LStrip(s, cs), cs)

\* s.strip()
Strip(s) == StripChars(s, Whitespace)

UpperLetters == <<"A","B","C","D","E","F","G","H","I","J","K","L","M",
                  "N","O","P","Q","R","S","T","U","V","W","X","Y","Z">>
LowerLetters == <<"a","b","c","d","e","f","g","h","i","j","k","l","m",
                  "n","o","p","q","r","s","t","u","v","w","x","y","z">>

LowerChar(c) ==
    IF \E i \in 1..Len(UpperLetters) : UpperLetters[i] = c
    THEN LowerLetters[CHOOSE i \in 1..Len(UpperLetters) : UpperLetters[i] = c]
    ELSE c

\* s.lower()
Lower(s) == [i \in 1..Len(s) |-> LowerChar(s[i])]

DigitChars == <<"0","1","2","3","4","5","6","7","8","9">>
IsDigit(c) == \E i \in 1..10 : DigitChars[i] = c
DigitVal(c) == (CHOOSE i \in 1..10 : DigitChars[i] = c) - 1

RECURSIVE DigitsToNat(_)
DigitsToNat(s) ==
    IF s = <<>> THEN 0
    ELSE DigitsToNat(SubSeq(s, 1, Len(s) - 1)) * 10 + DigitVal(s[Len(s)])

RECURSIVE Pow10(_)
Pow10(k) == IF k = 0 THEN 1 ELSE 10 * Pow10(k - 1)

RECURSIVE NatToChars(_)
NatToChars(n) ==
    IF n < 10 THEN << DigitChars[n + 1] >>
    ELSE NatToChars(n \div 10) \o << DigitChars[(n % 10) + 1] >>

\* n zero-padded on the left to k digits
RECURSIVE PadDigits(_, _)
PadDigits(n, k) ==
    IF k = 0 THEN <<>> ELSE PadDigits(n \div 10, k - 1) \o << DigitChars[(n % 10) + 1] >>

Abs(n) == IF n < 0 THEN 0 - n ELSE n

\* a decimal fraction n/d brought to the least power of ten d
RECURSIVE NormN(_, _)
NormN(n, d) == IF d > 1 /\ n % 10 = 0 THEN NormN(n \div 10, d \div 10) ELSE n
RECURSIVE NormD(_, _)
NormD(n, d) == IF d > 1 /\ n % 10 = 0 THEN NormD(n \div 10, d \div 10) ELSE d

RECURSIVE Log10(_)
Log10(d) == IF d <= 1 THEN 0 ELSE 1 + Log10(d \div 10)

\* float(s): optional sign, digits with at most one decimal point, surrounding
\* whitespace ignored; anything else is a ValueError (ok = FALSE).  The
\* exponent, inf and nan spellings are not among the rule texts drawn below.
ParseFloat(s) ==
    LET Digits(neg, parts) ==
            LET Number(ip, fp) ==
                    LET Value(n, d) ==
                            [ok |-> TRUE, n |-> NormN(n, d), d |-> NormD(n, d),
                             dotted |-> Len(parts) = 2]
                    IN  IF /\ \A i \in 1..Len(ip) : IsDigit(ip[i])
                           /\ \A i \in 1..Len(fp) : IsDigit(fp[i])
                           /\ Len(ip) + Len(fp) >= 1
                        THEN Value(IF neg THEN 0 - DigitsToNat(ip \o fp)
                                          ELSE DigitsToNat(ip \o fp),
                                   Pow10(Len(fp)))
                        ELSE [ok |-> FALSE, n |-> 0, d |-> 1, dotted |-> FALSE]
            IN  IF Len(parts) <= 2
                THEN Number(parts[1], IF Len(parts) = 2 THEN parts[2] ELSE <<>>)
                ELSE [ok |-> FALSE, n |-> 0, d |-> 1, dotted |-> FALSE]
        Signed(t) ==
            Digits(t # <<>> /\ t[1] = "-",
                   Split(IF t # <<>> /\ t[1] \in {"-", "+"} THEN Tail(t) ELSE t, <<".">>))
    IN  Signed(Strip(s))

\* str(x) of the float n/d (repr: shortest decimal, at least one fractional digit)
FloatStr(n, d) ==
    (IF n < 0 THEN <<"-">> ELSE <<>>)
    \o NatToChars(Abs(n) \div d)
    \o <<".">>
    \o (IF d = 1 THEN <<"0">> ELSE PadDigits(Abs(n) % d, Log10(d)))

\* str(x) of the int n
IntStr(n) == (IF n < 0 THEN <<"-">> ELSE <<>>) \o NatToChars(Abs(n))

-----------------------------------------------------------------------------
(* Python values as the validator sees them: None, bool, int, float, str,  *)
(* a str-mixin Enum member, and a list of these.                           *)

MkV(t, b, n, d, s, r, l) == [t |-> t, b |-> b, n |-> n, d |-> d, s |-> s, r |-> r, l |-> l]
NoneV       == MkV("none", FALSE, 0, 1, <<>>, <<>>, <<>>)
BoolV(b)    == MkV("bool", b, 0, 1, <<>>, <<>>, <<>>)
IntV(n)     == MkV("int", FALSE, n, 1, <<>>, <<>>, <<>>)
FloatV(n, d) == MkV("float", FALSE, NormN(n, d), NormD(n, d), <<>>, <<>>, <<>>)
StrV(s)     == MkV("str", FALSE, 0, 1, s, <<>>, <<>>)
\* a member of a `class X(str, Enum)`: r is "X.MEMBER", s is the member's value
EnumV(r, s) == MkV("enum", FALSE, 0, 1, s, r, <<>>)
ListV(l)    == MkV("list", FALSE, 0, 1, <<>>, <<>>, l)

IsNum(v) == v.t \in {"bool", "int", "float"}
NumN(v)  == IF v.t = "bool" THEN (IF v.b THEN 1 ELSE 0) ELSE v.n
NumD(v)  == IF v.t = "bool" THEN 1 ELSE v.d
IsText(v) == v.t \in {"str", "enum"}

\* a <= b, a < b for numbers (bool counts as 0/1, as in Python)
NumLe(a, b) == NumN(a) * NumD(b) <= NumN(b) * NumD(a)
NumLt(a, b) == NumN(a) * NumD(b) <  NumN(b) * NumD(a)

\* a == b in Python
PyEq(a, b) ==
    IF IsNum(a) /\ IsNum(b) THEN NumN(a) * NumD(b) = NumN(b) * NumD(a)
    ELSE IF IsText(a) /\ IsText(b) THEN a.s = b.s
    ELSE IF a.t = "none" /\ b.t = "none" THEN TRUE
    ELSE IF a.t = "list" /\ b.t = "list" THEN a.l = b.l
    ELSE FALSE

\* bool(v)
PyTruthy(v) ==
    CASE v.t = "none" -> FALSE
      [] v.t = "bool" -> v.b
      [] v.t \in {"int", "float"} -> v.n # 0
      [] v.t \in {"str", "enum"} -> v.s # <<>>
      [] OTHER -> v.l # <<>>

\* str(v); an Enum member prints as ClassName.MEMBER
PyStr(v) ==
    CASE v.t = "none"  -> <<"N","o","n","e">>
      [] v.t = "bool"  -> (IF v.b THEN <<"T","r","u","e">> ELSE <<"F","a","l","s","e">>)
      [] v.t = "int"   -> IntStr(v.n)
      [] v.t = "float" -> FloatStr(v.n, v.d)
      [] v.t = "str"   -> v.s
      [] v.t = "enum"  -> v.r
      [] OTHER         -> <<"[", "]">>

\* ast.literal_eval of one scalar literal: a quoted string, True/False/None
\* or a number
ParseAtom(a) ==
    LET Number(f) ==
            IF f.ok
            THEN [ok |-> TRUE, v |-> IF f.dotted THEN FloatV(f.n, f.d) ELSE IntV(f.n)]
            ELSE [ok |-> FALSE, v |-> NoneV]
        Atom(t) ==
            IF /\ Len(t) >= 2 /\ t[1] \in {"'", "\""} /\ t[Len(t)] = t[1]
               /\ \A i \in 2..(Len(t) - 1) : t[i] # t[1]
            THEN [ok |-> TRUE, v |-> StrV(SubSeq(t, 2, Len(t) - 1))]
            ELSE IF t = <<"T","r","u","e">> THEN [ok |-> TRUE, v |-> BoolV(TRUE)]
            ELSE IF t = <<"F","a","l","s","e">> THEN [ok |-> TRUE, v |-> BoolV(FALSE)]
            ELSE IF t = <<"N","o","n","e">> THEN [ok |-> TRUE, v |-> NoneV]
            ELSE Number(ParseFloat(t))
    IN  Atom(Strip(a))

\* ast.literal_eval(list_str) for a bracketed list of scalar literals (an
\* optional trailing comma, no commas inside the quoted strings) or one scalar
\* literal; ok = FALSE stands for the exception it raises on anything else
LiteralEval(list_str) ==
    LET List(atoms) ==
            IF \A i \in 1..Len(atoms) : atoms[i].ok
            THEN [ok |-> TRUE, v |-> ListV([i \in 1..Len(atoms) |-> atoms[i].v])]
            ELSE [ok |-> FALSE, v |-> NoneV]
        Items(raw) ==
            List([i \in 1..(IF Strip(raw[Len(raw)]) = <<>> THEN Len(raw) - 1 ELSE Len(raw))
                    |-> ParseAtom(raw[i])])
        Literal(t) ==
            IF Len(t) >= 2 /\ t[1] = "[" /\ t[Len(t)] = "]"
            THEN Items(Split(SubSeq(t, 2, Len(t) - 1), <<",">>))
            ELSE ParseAtom(t)
    IN  Literal(Strip(list_str))

-----------------------------------------------------------------------------
(* The rule-expression evaluator, MethodologyValidator._evaluate_          *)
(* validation_rule, and the gate threshold evaluator _evaluate_threshold.  *)
(* An outcome records the exception that escaped, raised = "" for none.    *)

RuleResult(passed, threshold) == [raised |-> "", passed |-> passed, threshold |-> threshold]
RuleRaise(e) == [raised |-> e, passed |-> FALSE, threshold |-> NoneV]

OpLe == <<"<", "=">>
OpGe == <<">", "=">>
OpEq == <<"=", "=">>
OpIn == <<" ", "i", "n", " ">>
Quotes == {"'", "\""}

\* `user_value is not None and user_value <cmp> float(text)`
CompareRule(text, user_value, ge) ==
    LET Compare(f, th) ==
            IF ~f.ok THEN RuleRaise("ValueError")
            ELSE IF user_value.t = "none" THEN RuleResult(FALSE, th)
            ELSE IF ~IsNum(user_value) THEN RuleRaise("TypeError")
            ELSE RuleResult(IF ge THEN NumLe(th, user_value) ELSE NumLe(user_value, th), th)
        Threshold(f) == Compare(f, FloatV(f.n, f.d))
    IN  Threshold(ParseFloat(text))

\* `user_val in threshold` inside the try block of the membership branch
MembershipRule(list_str, user_value) ==
    LET Member(ev, user_val) ==
            IF ~ev.ok THEN RuleResult(FALSE, NoneV)
            ELSE IF ev.v.t = "list"
                 THEN RuleResult(\E i \in 1..Len(ev.v.l) : PyEq(user_val, ev.v.l[i]), ev.v)
            ELSE IF ev.v.t = "str" /\ user_val.t = "str"
                 THEN RuleResult(user_val.s = <<>> \/ Contains(ev.v.s, user_val.s), ev.v)
            ELSE RuleResult(FALSE, NoneV)
    IN  Member(LiteralEval(list_str),
               IF user_value.t = "enum" THEN StrV(user_value.s) ELSE user_value)

RangeRule(rule, user_value) ==
    LET Range(lower, upper, th) ==
            IF user_value.t = "none" THEN RuleResult(FALSE, th)
            ELSE IF ~IsNum(user_value) THEN RuleRaise("TypeError")
            ELSE RuleResult(NumLe(lower, user_value) /\ NumLe(user_value, upper), th)
        Bounds(lo, hi) ==
            IF ~lo.ok \/ ~hi.ok THEN RuleRaise("ValueError")
            ELSE Range(FloatV(lo.n, lo.d), FloatV(hi.n, hi.d),
                       StrV(FloatStr(lo.n, lo.d) \o <<"-">> \o FloatStr(hi.n, hi.d)))
        Parts(parts) == Bounds(ParseFloat(parts[1]), ParseFloat(parts[3]))
    IN  Parts(Split(rule, OpLe))

EqualityRule(rule, user_value) ==
    LET Text(threshold) == RuleResult(PyStr(user_value) = threshold, StrV(threshold))
        Flag(lowered) ==
            IF Contains(lowered, <<"f","a","l","s","e">>)
            THEN RuleResult(PyEq(user_value, BoolV(FALSE)), BoolV(FALSE))
            ELSE IF Contains(lowered, <<"t","r","u","e">>)
            THEN RuleResult(PyEq(user_value, BoolV(TRUE)), BoolV(TRUE))
            ELSE Text(StripChars(Strip(Split(rule, OpEq)[2]), Quotes))
    IN  Flag(Lower(rule))

EvaluateValidationRule(validation_rule, user_value) ==
    LET Branch(rule) ==
            IF Contains(rule, OpLe) /\ Count(rule, OpLe) = 2
            THEN RangeRule(rule, user_value)
            ELSE IF Contains(rule, OpGe)
            THEN CompareRule(Split(rule, OpGe)[2], user_value, TRUE)
            ELSE IF Contains(rule, OpEq)
            THEN EqualityRule(rule, user_value)
            ELSE IF Contains(rule, OpIn)
            THEN MembershipRule(Split(rule, OpIn)[2], user_value)
            ELSE IF Contains(rule, OpLe)
            THEN CompareRule(Split(rule, OpLe)[2], user_value, FALSE)
            ELSE RuleResult(FALSE, NoneV)
    IN  Branch(Replace(validation_rule, <<"u","s","e","r",".">>, <<>>))

GateResult(triggered) == [raised |-> "", triggered |-> triggered]
GateRaise(e) == [raised |-> e, triggered |-> FALSE]

\* `user_value is not None and user_value <op> float(text)` of a gate threshold
CompareGate(text, user_value, op) ==
    LET Compare(f, th) ==
            IF ~f.ok THEN GateRaise("ValueError")
            ELSE IF user_value.t = "none" THEN GateResult(FALSE)
            ELSE IF ~IsNum(user_value) THEN GateRaise("TypeError")
            ELSE GateResult(CASE op = "<"  -> NumLt(user_value, th)
                              [] op = "<=" -> NumLe(user_value, th)
                              [] op = ">"  -> NumLt(th, user_value)
                              [] OTHER     -> NumLe(th, user_value))
        Threshold(f) == Compare(f, FloatV(f.n, f.d))
    IN  Threshold(ParseFloat(text))

EvaluateSimpleThreshold(expr, user_value) ==
    LET Flag(lowered) ==
            IF lowered = <<"t","r","u","e">> THEN GateResult(PyEq(user_value, BoolV(TRUE)))
            ELSE IF lowered = <<"f","a","l","s","e">>
            THEN GateResult(PyEq(user_value, BoolV(FALSE)))
            ELSE IF StartsWith(expr, <<"<", " ">>)
            THEN CompareGate(SubSeq(expr, 3, Len(expr)), user_value, "<")
            ELSE IF StartsWith(expr, <<"<", "=", " ">>)
            THEN CompareGate(SubSeq(expr, 4, Len(expr)), user_value, "<=")
            ELSE IF StartsWith(expr, <<">", " ">>)
            THEN CompareGate(SubSeq(expr, 3, Len(expr)), user_value, ">")
            ELSE IF StartsWith(expr, <<">", "=", " ">>)
            THEN CompareGate(SubSeq(expr, 4, Len(expr)), user_value, ">=")
            ELSE IF StartsWith(expr, <<"=", "=", " ">>)
            THEN GateResult(PyStr(user_value)
                                = StripChars(Strip(SubSeq(expr, 4, Len(expr))), Quotes))
            ELSE GateResult(FALSE)
    IN  Flag(Lower(expr))

OrSep == <<" ", "O", "R", " ">>

\* any(...) over the parts of an OR threshold, left to right: it stops at the
\* first part that triggers, and an exception in an earlier part escapes
RECURSIVE AnyThreshold(_, _, _)
AnyThreshold(parts, i, user_value) ==
    LET Part(r) == IF r.raised # "" THEN r
                   ELSE IF r.triggered THEN r
                   ELSE AnyThreshold(parts, i + 1, user_value)
    IN  IF i > Len(parts) THEN GateResult(FALSE)
        ELSE Part(EvaluateSimpleThreshold(Strip(Strip(parts[i])), user_value))

\* _evaluate_threshold; its validation_logic argument is never read
EvaluateThreshold(threshold_expr, user_value) ==
    LET Branch(expr) ==
            IF Contains(expr, OrSep)
            THEN AnyThreshold(Split(expr, OrSep), 1, user_value)
            ELSE EvaluateSimpleThreshold(expr, user_value)
    IN  Branch(Strip(threshold_expr))

-----------------------------------------------------------------------------
(* The athlete profile (UserProfile, src/src/schemas.py).  Hours are kept  *)
(* in tenths of an hour, years in tenths of a year; an absent Optional     *)
(* number is Nil, an absent Optional weekday is "none", and an absent      *)
(* Optional sub-model has present = FALSE.                                 *)

Nil == 0 - 1

\* the spelling of the names whose text the rule language can observe
Chars(name) ==
    CASE
         name = "low" -> <<"l","o","w">>
      [] name = "moderate" -> <<"m","o","d","e","r","a","t","e">>
      [] name = "high" -> <<"h","i","g","h">>
      [] name = "increasing" -> <<"i","n","c","r","e","a","s","i","n","g">>
      [] name = "stable" -> <<"s","t","a","b","l","e">>
      [] name = "decreasing" -> <<"d","e","c","r","e","a","s","i","n","g">>
      [] name = "unknown" -> <<"u","n","k","n","o","w","n">>
      [] name = "not_applicable" -> <<"n","o","t","_","a","p","p","l","i","c","a","b","l","e">>
      [] name = "StressLevel.LOW" -> <<"S","t","r","e","s","s","L","e","v","e","l",".","L","O","W">>
      [] name = "StressLevel.MODERATE" -> <<"S","t","r","e","s","s","L","e","v","e","l",".","M","O","D","E","R","A","T","E">>
      [] name = "StressLevel.HIGH" -> <<"S","t","r","e","s","s","L","e","v","e","l",".","H","I","G","H">>
      [] name = "HRVTrend.INCREASING" -> <<"H","R","V","T","r","e","n","d",".","I","N","C","R","E","A","S","I","N","G">>
      [] name = "HRVTrend.STABLE" -> <<"H","R","V","T","r","e","n","d",".","S","T","A","B","L","E">>
      [] name = "HRVTrend.DECREASING" -> <<"H","R","V","T","r","e","n","d",".","D","E","C","R","E","A","S","I","N","G">>
      [] name = "HRVTrend.UNKNOWN" -> <<"H","R","V","T","r","e","n","d",".","U","N","K","N","O","W","N">>
      [] name = "race_performance" -> <<"r","a","c","e","_","p","e","r","f","o","r","m","a","n","c","e">>
      [] name = "base_building" -> <<"b","a","s","e","_","b","u","i","l","d","i","n","g">>
      [] name = "sprint" -> <<"s","p","r","i","n","t">>
      [] name = "olympic" -> <<"o","l","y","m","p","i","c">>
      [] name = "B" -> <<"B">>
      [] name = "PrimaryGoal.RACE_PERFORMANCE" -> <<"P","r","i","m","a","r","y","G","o","a","l",".","R","A","C","E","_","P","E","R","F","O","R","M","A","N","C","E">>
      [] name = "PrimaryGoal.BASE_BUILDING" -> <<"P","r","i","m","a","r","y","G","o","a","l",".","B","A","S","E","_","B","U","I","L","D","I","N","G">>
      [] name = "RaceDistance.SPRINT" -> <<"R","a","c","e","D","i","s","t","a","n","c","e",".","S","P","R","I","N","T">>
      [] name = "RaceDistance.OLYMPIC" -> <<"R","a","c","e","D","i","s","t","a","n","c","e",".","O","L","Y","M","P","I","C">>
      [] name = "RacePriority.B" -> <<"R","a","c","e","P","r","i","o","r","i","t","y",".","B">>
      [] name = "MenstrualPhase.NOT_APPLICABLE" -> <<"M","e","n","s","t","r","u","a","l","P","h","a","s","e",".","N","O","T","_","A","P","P","L","I","C","A","B","L","E">>

StressLevels == {"low", "moderate", "high"}
HRVTrends == {"increasing", "stable", "decreasing", "unknown"}

StressMember(v) ==
    CASE v = "low" -> "StressLevel.LOW" [] v = "moderate" -> "StressLevel.MODERATE"
      [] OTHER -> "StressLevel.HIGH"
HRVMember(v) ==
    CASE v = "increasing" -> "HRVTrend.INCREASING" [] v = "stable" -> "HRVTrend.STABLE"
      [] v = "decreasing" -> "HRVTrend.DECREASING" [] OTHER -> "HRVTrend.UNKNOWN"

\* the declared fields of CurrentState and Goals
CurrentStateFields ==
    {"sleep_hours", "sleep_consistency", "injury_status", "injury_details",
     "stress_level", "stress_details", "weekly_volume_hours",
     "volume_consistency_weeks", "resting_heart_rate", "hrv_trend",
     "recent_illness", "menstrual_cycle_phase", "activity_log", "strava_status"}
GoalsFields ==
    {"primary_goal", "race_date", "race_distance", "goal_finish_time",
     "weeks_to_race", "priority_level"}
\* attributes every pydantic model object has besides its fields
ModelAttrs == {"model_dump", "model_copy"}

OptInt(n) == IF n = Nil THEN NoneV ELSE IntV(n)
ObjectV == MkV("object", FALSE, 0, 1, <<>>, <<>>, <<>>)

\* hasattr(user_profile.current_state, key)
HasCurrentStateAttr(key) == key \in CurrentStateFields \cup ModelAttrs

\* getattr(user_profile.current_state, key)
CurrentStateAttr(cs, key) ==
    CASE key = "sleep_hours" -> FloatV(cs.sleep_hours, 10)
      [] key = "injury_status" -> BoolV(cs.injury_status)
      [] key = "stress_level" ->
            EnumV(Chars(StressMember(cs.stress_level)), Chars(cs.stress_level))
      [] key = "weekly_volume_hours" -> FloatV(cs.weekly_volume_hours, 10)
      [] key = "volume_consistency_weeks" -> OptInt(cs.volume_consistency_weeks)
      [] key = "hrv_trend" -> EnumV(Chars(HRVMember(cs.hrv_trend)), Chars(cs.hrv_trend))
      [] key = "recent_illness" -> BoolV(cs.recent_illness)
      [] key = "menstrual_cycle_phase" ->
            EnumV(Chars("MenstrualPhase.NOT_APPLICABLE"), Chars("not_applicable"))
      [] key \in ModelAttrs -> ObjectV
      [] OTHER -> NoneV

\* _get_user_value
GetUserValue(key, user_profile) ==
    IF HasCurrentStateAttr(key)
    THEN CurrentStateAttr(user_profile.current_state, key)
    ELSE IF key = "weeks_to_race" /\ PyTruthy(OptInt(user_profile.goals.weeks_to_race))
    THEN IntV(user_profile.goals.weeks_to_race)
    ELSE NoneV

-----------------------------------------------------------------------------
(* MethodologyValidator (src/src/validator.py).                            *)

Severities == {"blocking", "warning"}

\* next((a for a in assumptions if a.key == key), None): index, 0 for None
FirstAssumption(assumptions, key) ==
    IF \E i \in 1..Len(assumptions) : assumptions[i].key = key
    THEN CHOOSE i \in 1..Len(assumptions) :
            /\ assumptions[i].key = key
            /\ \A j \in 1..(i - 1) : assumptions[j].key # key
    ELSE 0

\* _evaluate_assumption: the AssumptionCheck, or the exception that escaped
EvaluateAssumption(m, assumption_key, user_profile) ==
    LET Check(user_value, r) ==
            [raised |-> r.raised, assumption_key |-> assumption_key,
             passed |-> r.passed, user_value |-> user_value, threshold |-> r.threshold]
        Evaluate(assumption, user_value) ==
            Check(user_value, EvaluateValidationRule(assumption.validation_rule, user_value))
        Found(idx) ==
            IF idx = 0
            THEN [raised |-> "", assumption_key |-> assumption_key, passed |-> FALSE,
                  user_value |-> NoneV, threshold |-> NoneV]
            ELSE Evaluate(m.assumptions[idx], GetUserValue(assumption_key, user_profile))
    IN  Found(FirstAssumption(m.assumptions, assumption_key))

\* _check_assumptions
CheckAssumptions(m, user_profile) ==
    [i \in 1..Len(m.assumptions) |->
        EvaluateAssumption(m, m.assumptions[i].key, user_profile)]

\* _evaluate_safety_gate: whether the gate triggered and the GateViolation
EvaluateSafetyGate(criterion, user_profile) ==
    LET Gate(t) ==
            [raised |-> t.raised, triggered |-> t.triggered,
             violation |-> [condition |-> criterion.condition,
                            threshold |-> criterion.threshold,
                            severity |-> criterion.severity]]
    IN  Gate(EvaluateThreshold(criterion.threshold,
                               GetUserValue(criterion.condition, user_profile)))

IsBlocking(v) == v.severity = "blocking"
IsWarning(v) == v.severity = "warning"

RECURSIVE Triggered(_, _)
Triggered(gates, i) ==
    IF i > Len(gates) THEN <<>>
    ELSE (IF gates[i].triggered THEN << gates[i].violation >> ELSE <<>>)
         \o Triggered(gates, i + 1)

\* the violations left in the order the criteria were evaluated
UnsortedViolations(violations) == violations
\* violations.sort(key=lambda v: 0 if blocking else 1), a stable sort
SortViolations(violations) ==
    SelectSeq(violations, IsBlocking) \o SelectSeq(violations, LAMBDA v : ~IsBlocking(v))

\* the first exception among a sequence of outcomes, "" when none raised
FirstRaised(outcomes) ==
    IF \E i \in 1..Len(outcomes) : outcomes[i].raised # ""
    THEN outcomes[CHOOSE i \in 1..Len(outcomes) :
                    /\ outcomes[i].raised # ""
                    /\ \A j \in 1..(i - 1) : outcomes[j].raised = ""].raised
    ELSE ""

\* _check_safety_gates
CheckSafetyGates(m, user_profile) ==
    LET Outcome(gates) ==
            [raised |-> FirstRaised(gates),
             violations |-> SortViolations(Triggered(gates, 1))]
    IN  Outcome([i \in 1..Len(m.exclusion_criteria) |->
                    EvaluateSafetyGate(m.exclusion_criteria[i], user_profile)])

NoValidation ==
    [status |-> "none", raised |-> "", approved |-> FALSE, result |-> "",
     checks |-> <<>>, safety_gates |-> <<>>, warnings |-> <<>>,
     refusal_response |-> <<>>, fragility_score |-> Nil]

ValidationRaised(e) == [NoValidation EXCEPT !.status = "raised", !.raised = e]

\* _build_refusal_response
BuildRefusalResponse(violations) ==
    [status |-> IF SelectSeq(violations, IsBlocking) # <<>> THEN "refused" ELSE "warning",
     violations |-> violations]

\* validate: the ValidationResult, or the exception that escaped
Validate(m, user_profile) ==
    LET Result(checks, violations, warning_violations) ==
            LET returned == [NoValidation EXCEPT !.status = "returned",
                                !.checks = [i \in 1..Len(checks) |->
                                    [assumption_key |-> checks[i].assumption_key,
                                     passed |-> checks[i].passed,
                                     user_value |-> checks[i].user_value,
                                     threshold |-> checks[i].threshold]],
                                !.safety_gates = violations]
            IN  IF SelectSeq(violations, IsBlocking) # <<>>
                THEN [returned EXCEPT !.approved = FALSE, !.result = "refused",
                         !.refusal_response = << BuildRefusalResponse(violations) >>]
                ELSE IF warning_violations # <<>>
                THEN [returned EXCEPT !.approved = TRUE, !.result = "warning",
                         !.warnings = [i \in 1..Len(warning_violations) |->
                                         warning_violations[i].condition]]
                ELSE [returned EXCEPT !.approved = TRUE, !.result = "approved"]
        Gates(assumption_checks, gates) ==
            IF gates.raised # "" THEN ValidationRaised(gates.raised)
            ELSE Result(assumption_checks, gates.violations,
                        SelectSeq(gates.violations, IsWarning))
        Checks(assumption_checks, raised) ==
            IF raised # "" THEN ValidationRaised(raised)
            ELSE Gates(assumption_checks, CheckSafetyGates(m, user_profile))
        Checked(assumption_checks) ==
            Checks(assumption_checks, FirstRaised(assumption_checks))
    IN  Checked(CheckAssumptions(m, user_profile))

-----------------------------------------------------------------------------
(* Inputs: profiles and methodology configurations.                        *)

Profile(cs, goals, th, constraints, preferences) ==
    [current_state |-> cs, goals |-> goals, training_history |-> th,
     constraints |-> constraints, preferences |-> preferences]

CurrentState(sleep, injury, stress, volume, consistency, hrv, illness) ==
    [sleep_hours |-> sleep, injury_status |-> injury, stress_level |-> stress,
     weekly_volume_hours |-> volume, volume_consistency_weeks |-> consistency,
     hrv_trend |-> hrv, recent_illness |-> illness]

Goals(goal, distance, weeks) ==
    [primary_goal |-> goal, race_distance |-> distance, weeks_to_race |-> weeks]

TrainingHistory(present, years) == [present |-> present, years_training |-> years]
Constraints(present, days) == [present |-> present, available_training_days |-> days]
Preferences(present, long_day, rest_day) ==
    [present |-> present, long_workout_day |-> long_day, rest_day |-> rest_day]

Assumption(key, rule) == [key |-> key, validation_rule |-> rule]
Criterion(condition, threshold, severity) ==
    [condition |-> condition, threshold |-> threshold, severity |-> severity]

StandardAssumptions ==
    << Assumption("sleep_hours", <<"u","s","e","r",".","s","l","e","e","p","_","h","o","u","r","s"," ",">","="," ","7",".","0">>),
       Assumption("injury_status", <<"u","s","e","r",".","i","n","j","u","r","y","_","s","t","a","t","u","s"," ","=","="," ","f","a","l","s","e">>),
       Assumption("stress_level", <<"u","s","e","r",".","s","t","r","e","s","s","_","l","e","v","e","l"," ","i","n"," ","[","'","l","o","w","'",","," ","'","m","o","d","e","r","a","t","e","'","]">>),
       Assumption("weekly_volume_hours", <<"6",".","0"," ","<","="," ","u","s","e","r",".","w","e","e","k","l","y","_","v","o","l","u","m","e","_","h","o","u","r","s"," ","<","="," ","2","0",".","0">>),
       Assumption("volume_consistency_weeks", <<"u","s","e","r",".","v","o","l","u","m","e","_","c","o","n","s","i","s","t","e","n","c","y","_","w","e","e","k","s"," ",">","="," ","4">>) >>

\* two assumptions on the same key, with different rules
SharedKeyAssumptions ==
    << Assumption("sleep_hours", <<"u","s","e","r",".","s","l","e","e","p","_","h","o","u","r","s"," ",">","="," ","7",".","0">>),
       Assumption("sleep_hours", <<"u","s","e","r",".","s","l","e","e","p","_","h","o","u","r","s"," ","<","="," ","9",".","0">>),
       Assumption("recent_illness", <<"u","s","e","r",".","r","e","c","e","n","t","_","i","l","l","n","e","s","s"," ","=","="," ","f","a","l","s","e">>) >>

GoalAssumptions ==
    << Assumption("weeks_to_race", <<"u","s","e","r",".","w","e","e","k","s","_","t","o","_","r","a","c","e"," ",">","="," ","4">>),
       Assumption("primary_goal", <<"u","s","e","r",".","p","r","i","m","a","r","y","_","g","o","a","l"," ","i","n"," ","[","'","r","a","c","e","_","p","e","r","f","o","r","m","a","n","c","e","'","]">>),
       Assumption("hrv_trend", <<"u","s","e","r",".","h","r","v","_","t","r","e","n","d"," ","i","n"," ","[","'","s","t","a","b","l","e","'",","," ","'","i","n","c","r","e","a","s","i","n","g","'","]">>) >>

\* a rule with a bound that is no number
MalformedAssumptions ==
    << Assumption("injury_status", <<"u","s","e","r",".","i","n","j","u","r","y","_","s","t","a","t","u","s"," ","=","="," ","f","a","l","s","e">>),
       Assumption("sleep_hours", <<"u","s","e","r",".","s","l","e","e","p","_","h","o","u","r","s"," ",">","="," ","s","e","v","e","n">>) >>

\* a rule with an operator the evaluator does not know
UnsupportedAssumptions ==
    << Assumption("sleep_hours", <<"u","s","e","r",".","s","l","e","e","p","_","h","o","u","r","s"," ",">"," ","7",".","0">>),
       Assumption("weekly_volume_hours", <<"u","s","e","r",".","w","e","e","k","l","y","_","v","o","l","u","m","e","_","h","o","u","r","s"," ","<","="," ","2","0",".","0">>) >>

StandardCriteria ==
    << Criterion("weekly_volume_hours", <<"<"," ","6",".","0"," ","O","R"," ",">"," ","2","0",".","0">>, "warning"),
       Criterion("injury_status", <<"t","r","u","e">>, "blocking"),
       Criterion("recent_illness", <<"t","r","u","e">>, "warning"),
       Criterion("sleep_hours", <<"<"," ","6",".","0">>, "blocking") >>

WarningCriteria ==
    << Criterion("weekly_volume_hours", <<">"," ","2","0",".","0">>, "warning"),
       Criterion("recent_illness", <<"t","r","u","e">>, "warning"),
       Criterion("stress_level", <<"=","="," ","'","h","i","g","h","'">>, "warning") >>

\* thresholds in none of the supported forms, and a goals key
OpenCriteria ==
    << Criterion("sleep_hours", <<"<","6",".","0">>, "blocking"),
       Criterion("weeks_to_race", <<"<"," ","4">>, "blocking"),
       Criterion("weekly_volume_hours", <<">","="," ","2","5",".","0">>, "warning") >>

\* a numeric threshold on an Enum-valued field
MistypedCriteria ==
    << Criterion("injury_status", <<"t","r","u","e">>, "blocking"),
       Criterion("stress_level", <<"<"," ","2">>, "warning") >>

ValidatorConfigs ==
    { [assumptions |-> StandardAssumptions,    exclusion_criteria |-> StandardCriteria],
      [assumptions |-> SharedKeyAssumptions,   exclusion_criteria |-> WarningCriteria],
      [assumptions |-> GoalAssumptions,        exclusion_criteria |-> OpenCriteria],
      [assumptions |-> MalformedAssumptions,   exclusion_criteria |-> StandardCriteria],
      [assumptions |-> UnsupportedAssumptions, exclusion_criteria |-> WarningCriteria],
      [assumptions |-> StandardAssumptions,    exclusion_criteria |-> MistypedCriteria] }

ValidatorProfiles ==
    { Profile(CurrentState(sleep, injury, stress, volume, consistency, "stable", illness),
              Goals("race_performance", "olympic", weeks),
              TrainingHistory(TRUE, 50), Constraints(TRUE, 6),
              Preferences(TRUE, "saturday", "monday")) :
        sleep \in {55, 75}, injury \in BOOLEAN, stress \in {"low", "high"},
        volume \in {50, 100, 250}, consistency \in {Nil, 8},
        illness \in BOOLEAN, weeks \in {Nil, 12} }

PrimaryGoalMember(v) ==
    IF v = "race_performance" THEN "PrimaryGoal.RACE_PERFORMANCE"
    ELSE "PrimaryGoal.BASE_BUILDING"
RaceDistanceMember(v) ==
    IF v = "sprint" THEN "RaceDistance.SPRINT" ELSE "RaceDistance.OLYMPIC"

\* the value of a declared field of Goals (class Goals)
GoalsAttr(goals, key) ==
    CASE key = "primary_goal" ->
            EnumV(Chars(PrimaryGoalMember(goals.primary_goal)), Chars(goals.primary_goal))
      [] key = "race_distance" ->
            EnumV(Chars(RaceDistanceMember(goals.race_distance)), Chars(goals.race_distance))
      [] key = "weeks_to_race" -> OptInt(goals.weeks_to_race)
      [] key = "priority_level" -> EnumV(Chars("RacePriority.B"), Chars("B"))
      [] OTHER -> NoneV

-----------------------------------------------------------------------------
(* The state of the components that take no part in a specification.       *)

NoRuleCall == [kind |-> "none"]
NoLookup == [done |-> FALSE]
NoFragility ==
    [status |-> "none", raised |-> "", score |-> 0, breakdown |-> <<>>,
     interpretation |-> "", recommendations |-> <<>>]

\* no TrainingPlanGenerator constructed yet
NoPlanner == [status |-> "none", raised |-> "", plan_decisions |-> <<>>]
\* no generate() call made yet
NoPlan ==
    [status |-> "none", raised |-> "", plan_duration_weeks |-> 0, weeks |-> <<>>,
     fragility_score |-> 0, plan_decisions |-> <<>>, intensity_distribution |-> <<>>]
\* no SensitivityAnalyzer constructed yet
NoAnalyzer ==
    [status |-> "none", baseline_profile |-> 0, baseline_validation |-> NoValidation,
     baseline_plan |-> <<>>]
\* no modify_assumption() call made yet
NoResult ==
    [status |-> "none", raised |-> "", modified_assumption |-> <<>>,
     original_value |-> NoneV, new_value |-> NoneV, original_validation_status |-> "",
     new_validation_status |-> "", validation_changed |-> FALSE, new_violations |-> <<>>,
     original_fragility |-> <<>>, new_fragility |-> <<>>, fragility_delta |-> <<>>,
     plan_adjustments |-> <<>>]
NoSens == [calls |-> 0, original |-> <<>>, result |-> NoResult]

-----------------------------------------------------------------------------
(* Specification of the validator: one methodology, one profile, and the   *)
(* calls validate() and _get_user_value().                                 *)

\* the keys a methodology makes the validator look up
ConfiguredKeys(m) ==
    {m.assumptions[i].key : i \in 1..Len(m.assumptions)}
        \cup {m.exclusion_criteria[i].condition : i \in 1..Len(m.exclusion_criteria)}

InitValidator ==
    /\ methodology \in ValidatorConfigs
    /\ \E p \in ValidatorProfiles : heap = << p >>
    /\ caller = 1
    /\ recovery = <<>>
    /\ hiCalls = <<>>
    /\ phaseCalls = <<>>
    /\ sleepCalls = <<>>
    /\ validation = NoValidation
    /\ ruleCall = NoRuleCall
    /\ lookup = NoLookup
    /\ fragility = NoFragility
    /\ planner = NoPlanner
    /\ plan = NoPlan
    /\ firstPlan = NoPlan
    /\ analyzer = NoAnalyzer
    /\ sens = NoSens
    /\ calls = 0

\* validator.validate(user_profile)
ValidateCall ==
    /\ validation' = Validate(methodology, heap[caller])
    /\ UNCHANGED <<methodology, hiCalls, phaseCalls, sleepCalls, recovery, heap, caller, ruleCall, lookup, fragility, planner,
                   plan, firstPlan, analyzer, sens, calls>>

\* validator._get_user_value(key, user_profile)
GetUserValueCall ==
    \E key \in ConfiguredKeys(methodology) :
        /\ lookup' = [done |-> TRUE, key |-> key,
                      value |-> GetUserValue(key, heap[caller])]
        /\ UNCHANGED <<methodology, hiCalls, phaseCalls, sleepCalls, recovery, heap, caller, validation, ruleCall, fragility,
                       planner, plan, firstPlan, analyzer, sens, calls>>

NextValidator == ValidateCall \/ GetUserValueCall

SpecValidator == InitValidator /\ [][NextValidator]_vars

\* the criteria of the methodology that trigger on the profile
TriggeredCriteria ==
    {i \in 1..Len(methodology.exclusion_criteria) :
        EvaluateSafetyGate(methodology.exclusion_criteria[i], heap[caller]).triggered}

\* C1: whenever validate() has been called, it produced a verdict, and the
\* verdict follows the triggered criteria: some triggered criterion blocking
\* gives approved False and status 'refused'; none blocking but some warning
\* gives approved True and status 'warning'; none triggered gives approved
\* True, status 'approved' and an empty violation list.
VerdictFollowsTriggeredCriteria ==
    validation.status # "none" =>
        /\ validation.status = "returned"
        /\ IF \E i \in TriggeredCriteria :
                methodology.exclusion_criteria[i].severity = "blocking"
           THEN ~validation.approved /\ validation.result = "refused"
           ELSE IF \E i \in TriggeredCriteria :
                methodology.exclusion_criteria[i].severity = "warning"
           THEN validation.approved /\ validation.result = "warning"
           ELSE /\ validation.approved
                /\ validation.result = "approved"
                /\ validation.safety_gates = <<>>

\* C8: a returned validation has one check per configured assumption, in
\* configuration order, and the i-th check carries the i-th assumption's key
\* and the outcome of the i-th assumption's own rule on the value of its key.
ChecksFollowOwnRules ==
    validation.status = "returned" =>
        /\ Len(validation.checks) = Len(methodology.assumptions)
        /\ \A i \in 1..Len(methodology.assumptions) :
            LET a == methodology.assumptions[i]
                own == EvaluateValidationRule(a.validation_rule,
                                              GetUserValue(a.key, heap[caller]))
            IN  /\ validation.checks[i].assumption_key = a.key
                /\ validation.checks[i].passed = own.passed

\* C10: a looked-up key resolves to the current-state field of that name,
\* else to the goals field of that name, and to None only when it names a
\* field of neither.
LookupResolvesGoalsFields ==
    lookup.done =>
        lookup.value =
            IF lookup.key \in CurrentStateFields
            THEN CurrentStateAttr(heap[caller].current_state, lookup.key)
            ELSE IF lookup.key \in GoalsFields
            THEN GoalsAttr(heap[caller].goals, lookup.key)
            ELSE NoneV

-----------------------------------------------------------------------------
(* Specification of the two expression evaluators: calls of                *)
(* _evaluate_validation_rule and _evaluate_threshold on rule texts and on  *)
(* the values a profile field can hold.                                    *)

RuleTexts ==
    { <<"u","s","e","r",".","s","l","e","e","p","_","h","o","u","r","s"," ",">","="," ","7",".","0">>,
      <<"u","s","e","r",".","s","l","e","e","p","_","h","o","u","r","s"," ",">","="," ","s","e","v","e","n">>,
      <<"u","s","e","r",".","s","l","e","e","p","_","h","o","u","r","s"," ","<","="," ","9",".","0">>,
      <<"u","s","e","r",".","s","l","e","e","p","_","h","o","u","r","s"," ",">"," ","7",".","0">>,
      <<"6",".","0"," ","<","="," ","u","s","e","r",".","w","e","e","k","l","y","_","v","o","l","u","m","e","_","h","o","u","r","s"," ","<","="," ","2","0",".","0">>,
      <<"s","i","x"," ","<","="," ","u","s","e","r",".","w","e","e","k","l","y","_","v","o","l","u","m","e","_","h","o","u","r","s"," ","<","="," ","2","0",".","0">>,
      <<"u","s","e","r",".","i","n","j","u","r","y","_","s","t","a","t","u","s"," ","=","="," ","f","a","l","s","e">>,
      <<"u","s","e","r",".","s","t","r","e","s","s","_","l","e","v","e","l"," ","=","="," ","'","h","i","g","h","'">>,
      <<"u","s","e","r",".","s","t","r","e","s","s","_","l","e","v","e","l"," ","i","n"," ","[","'","l","o","w","'",","," ","'","m","o","d","e","r","a","t","e","'","]">>,
      <<"u","s","e","r",".","s","t","r","e","s","s","_","l","e","v","e","l"," ","i","n"," ","[","l","o","w",","," ","m","o","d","e","r","a","t","e">>,
      <<"u","s","e","r",".","s","t","r","e","s","s","_","l","e","v","e","l"," ",">","="," ","2">>,
      <<"u","s","e","r",".","v","o","l","u","m","e","_","c","o","n","s","i","s","t","e","n","c","y","_","w","e","e","k","s"," ",">","="," ","4">> }

ThresholdTexts ==
    { <<"<"," ","6",".","0">>, <<"<","6",".","0">>, <<"t","r","u","e">>, <<"=","="," ","'","h","i","g","h","'">>, <<"<"," ","6",".","0"," ","O","R"," ",">"," ","2","0",".","0">>,
      <<">"," ","2","0",".","0"," ","O","R"," ","<"," ","s","i","x">>,
      <<"<"," ","s","i","x"," ","O","R"," ",">"," ","2","0",".","0">>, <<">","="," ","4">>, <<"<","="," ","9",".","0">> }

ObservedValues ==
    { NoneV, BoolV(TRUE), BoolV(FALSE), IntV(0), IntV(8),
      FloatV(55, 10), FloatV(75, 10), FloatV(250, 10),
      EnumV(Chars("StressLevel.LOW"), Chars("low")),
      EnumV(Chars("StressLevel.HIGH"), Chars("high")) }

InitRules ==
    /\ methodology = [assumptions |-> <<>>, exclusion_criteria |-> <<>>]
    /\ heap = <<>>
    /\ caller = 0
    /\ recovery = <<>>
    /\ hiCalls = <<>>
    /\ phaseCalls = <<>>
    /\ sleepCalls = <<>>
    /\ validation = NoValidation
    /\ ruleCall = NoRuleCall
    /\ lookup = NoLookup
    /\ fragility = NoFragility
    /\ planner = NoPlanner
    /\ plan = NoPlan
    /\ firstPlan = NoPlan
    /\ analyzer = NoAnalyzer
    /\ sens = NoSens
    /\ calls = 0

\* validator._evaluate_validation_rule(validation_rule, user_value)
EvaluateValidationRuleCall ==
    \E validation_rule \in RuleTexts, user_value \in ObservedValues :
        /\ ruleCall' = [kind |-> "rule", text |-> validation_rule,
                        user_value |-> user_value,
                        outcome |-> EvaluateValidationRule(validation_rule, user_value)]
        /\ UNCHANGED <<methodology, hiCalls, phaseCalls, sleepCalls, recovery, heap, caller, validation, lookup, fragility,
                       planner, plan, firstPlan, analyzer, sens, calls>>

\* validator._evaluate_threshold(threshold_expr, user_value, validation_logic)
EvaluateThresholdCall ==
    \E threshold_expr \in ThresholdTexts, user_value \in ObservedValues :
        /\ ruleCall' = [kind |-> "threshold", text |-> threshold_expr,
                        user_value |-> user_value,
                        outcome |-> EvaluateThreshold(threshold_expr, user_value)]
        /\ UNCHANGED <<methodology, hiCalls, phaseCalls, sleepCalls, recovery, heap, caller, validation, lookup, fragility,
                       planner, plan, firstPlan, analyzer, sens, calls>>

NextRules == EvaluateValidationRuleCall \/ EvaluateThresholdCall

SpecRules == InitRules /\ [][NextRules]_vars

\* the rule texts above that are not well-formed rules: a bound that is no
\* number, an operator outside the rule language, a list that does not parse
MalformedRules ==
    { <<"u","s","e","r",".","s","l","e","e","p","_","h","o","u","r","s"," ",">","="," ","s","e","v","e","n">>,
      <<"u","s","e","r",".","s","l","e","e","p","_","h","o","u","r","s"," ",">"," ","7",".","0">>,
      <<"s","i","x"," ","<","="," ","u","s","e","r",".","w","e","e","k","l","y","_","v","o","l","u","m","e","_","h","o","u","r","s"," ","<","="," ","2","0",".","0">>,
      <<"u","s","e","r",".","s","t","r","e","s","s","_","l","e","v","e","l"," ","i","n"," ","[","l","o","w",","," ","m","o","d","e","r","a","t","e">> }

\* C9: every call of the rule evaluator returns, whatever the rule text and
\* the observed value: no exception escapes it, and a rule that is not
\* well-formed yields passed=False with threshold=None.
RuleEvaluatorNeverRaises ==
    ruleCall.kind = "rule" =>
        /\ ruleCall.outcome.raised = ""
        /\ ruleCall.text \in MalformedRules =>
                ~ruleCall.outcome.passed /\ ruleCall.outcome.threshold = NoneV

-----------------------------------------------------------------------------
(* FragilityCalculator (src/src/fragility.py).  A penalty is kept as the    *)
(* numerator of a fraction over PenaltyDen, a weight and the base fragility *)
(* in hundredths, and a score or a contribution as the numerator of a       *)
(* fraction over ScoreDen = 100 * PenaltyDen; the arithmetic is exact.      *)

\* the least common denominator of the penalties: 8 * 70^2, 600 and 100
PenaltyDen == 117600
WeightDen == 100
ScoreDen == WeightDen * PenaltyDen

Min(a, b) == IF a <= b THEN a ELSE b
Max(a, b) == IF a >= b THEN a ELSE b

Factors ==
    <<"sleep_deviation", "stress_multiplier", "volume_variance",
      "intensity_frequency", "recovery_quality">>

\* a penalty that stays at the base penalty below the minimum sleep
SleepPenaltyFlatBelowMinimum(user_profile) ==
    LET Penalty(sleep_hours) ==
            IF sleep_hours >= 80 THEN 0
            ELSE IF sleep_hours >= 70
            THEN ((80 - sleep_hours) * PenaltyDen) \div 80
            ELSE PenaltyDen \div 8
    IN  Penalty(user_profile.current_state.sleep_hours)
\* _calculate_sleep_deviation_penalty; sleep_hours in tenths of an hour
SleepDeviationPenalty(user_profile) ==
    LET Penalty(sleep_hours) ==
            IF sleep_hours >= 80 THEN 0
            ELSE IF sleep_hours >= 70
            THEN ((80 - sleep_hours) * PenaltyDen) \div 80
            ELSE Min(PenaltyDen,
                     (PenaltyDen \div 8)
                        + ((70 - sleep_hours) * (70 - sleep_hours) * PenaltyDen) \div 4900)
    IN  Penalty(user_profile.current_state.sleep_hours)

\* a stress penalty that falls as the stress level rises
StressPenaltyInverted(user_profile) ==
    CASE user_profile.current_state.stress_level = "low" -> PenaltyDen
      [] user_profile.current_state.stress_level = "moderate" -> (3 * PenaltyDen) \div 10
      [] OTHER -> 0
\* _calculate_stress_multiplier_penalty
StressMultiplierPenalty(user_profile) ==
    CASE user_profile.current_state.stress_level = "low" -> 0
      [] user_profile.current_state.stress_level = "moderate" -> (3 * PenaltyDen) \div 10
      [] user_profile.current_state.stress_level = "high" -> PenaltyDen
      [] OTHER -> 0

\* _calculate_volume_variance_penalty; weekly_volume_hours in tenths
VolumeVariancePenalty(user_profile) ==
    LET Penalty(volume_hours, consistency_weeks) ==
            Min(PenaltyDen,
                (IF volume_hours < 60 THEN ((60 - volume_hours) * PenaltyDen) \div 60
                 ELSE IF volume_hours > 200
                 THEN ((volume_hours - 200) * PenaltyDen) \div 200
                 ELSE 0)
                + (IF consistency_weeks < 4
                   THEN ((4 - consistency_weeks) * PenaltyDen) \div 8
                   ELSE 0))
    IN  Penalty(user_profile.current_state.weekly_volume_hours,
                IF PyTruthy(OptInt(user_profile.current_state.volume_consistency_weeks))
                THEN user_profile.current_state.volume_consistency_weeks ELSE 0)

\* _calculate_intensity_frequency_penalty
IntensityFrequencyPenalty(user_profile) ==
    LET Trend(penalty, hrv_trend) ==
            Min(PenaltyDen,
                IF hrv_trend = "decreasing" THEN (penalty * 15) \div 10
                ELSE IF hrv_trend = "increasing" THEN (penalty * 7) \div 10
                ELSE penalty)
        Timeline(weeks_to_race) ==
            Trend(IF weeks_to_race <= 4 THEN (8 * PenaltyDen) \div 10
                  ELSE IF weeks_to_race <= 8 THEN (4 * PenaltyDen) \div 10
                  ELSE IF weeks_to_race <= 12 THEN (2 * PenaltyDen) \div 10
                  ELSE PenaltyDen \div 10,
                  user_profile.current_state.hrv_trend)
    IN  Timeline(IF PyTruthy(OptInt(user_profile.goals.weeks_to_race))
                 THEN user_profile.goals.weeks_to_race ELSE 12)

\* _calculate_recovery_quality_penalty
RecoveryQualityPenalty(user_profile) ==
    LET Penalty(hrv_trend, recent_illness) ==
            IF hrv_trend = "decreasing" /\ recent_illness THEN PenaltyDen
            ELSE Min(PenaltyDen,
                     ((CASE hrv_trend = "increasing" -> 0
                         [] hrv_trend = "stable" -> (3 * PenaltyDen) \div 10
                         [] hrv_trend = "decreasing" -> PenaltyDen
                         [] OTHER -> (5 * PenaltyDen) \div 10) * 7) \div 10
                     + (IF recent_illness THEN (3 * PenaltyDen) \div 10 ELSE 0))
    IN  Penalty(user_profile.current_state.hrv_trend,
                user_profile.current_state.recent_illness)

\* the penalties dict of calculate, in the order of Factors
Penalties(user_profile) ==
    << SleepDeviationPenalty(user_profile), StressMultiplierPenalty(user_profile),
       VolumeVariancePenalty(user_profile), IntensityFrequencyPenalty(user_profile),
       RecoveryQualityPenalty(user_profile) >>

\* self.weights.get(factor, 0.0)
WeightOf(weights, factor) == IF factor \in DOMAIN weights THEN weights[factor] ELSE 0

RECURSIVE SumSeq(_)
SumSeq(s) == IF s = <<>> THEN 0 ELSE Head(s) + SumSeq(Tail(s))

\* _interpret_score
InterpretScore(score) ==
    IF 10 * score < 4 * ScoreDen THEN "Low Risk"
    ELSE IF 10 * score < 6 * ScoreDen THEN "Moderate Risk"
    ELSE IF 10 * score < 8 * ScoreDen THEN "High Risk"
    ELSE "Critical Risk"

\* _generate_recommendations: one tag for each recommendation text
GenerateRecommendations(user_profile, penalties) ==
    LET Over(i, tenths) == 10 * penalties[i] > tenths * PenaltyDen
        cs == user_profile.current_state
        consistency_weeks == IF PyTruthy(OptInt(cs.volume_consistency_weeks))
                             THEN cs.volume_consistency_weeks ELSE 0
        weeks_to_race == IF PyTruthy(OptInt(user_profile.goals.weeks_to_race))
                         THEN user_profile.goals.weeks_to_race ELSE 12
        Maintenance(recommendations) ==
            IF recommendations = <<>> THEN << "maintain" >> ELSE recommendations
    IN  Maintenance(
            (IF Over(1, 2)
             THEN (IF cs.sleep_hours < 70 THEN << "increase_sleep" >>
                                          ELSE << "optimize_sleep" >>)
             ELSE <<>>)
         \o (IF Over(2, 2) THEN << "manage_stress" >> ELSE <<>>)
         \o (IF Over(3, 2)
             THEN (IF cs.weekly_volume_hours < 60 THEN << "increase_volume" >>
                   ELSE IF cs.weekly_volume_hours > 200 THEN << "reduce_volume" >>
                   ELSE <<>>)
                  \o (IF consistency_weeks < 4 THEN << "consistent_volume" >> ELSE <<>>)
             ELSE <<>>)
         \o (IF Over(4, 4) /\ weeks_to_race <= 4 THEN << "short_timeline" >> ELSE <<>>)
         \o (IF Over(5, 4)
             THEN (IF cs.recent_illness THEN << "recent_illness" >> ELSE <<>>)
                  \o (IF cs.hrv_trend = "decreasing" THEN << "hrv_decreasing" >>
                      ELSE IF cs.hrv_trend = "unknown" THEN << "track_hrv" >>
                      ELSE <<>>)
             ELSE <<>>))

\* the sum returned as it is, without the clamp
UnclampedScore(x) == x
\* the clamp of calculate: max(0.0, min(1.0, x))
ClampScore(x) == Max(0, Min(ScoreDen, x))

\* FragilityCalculator(methodology).calculate(user_profile): the
\* FragilityResult, or the exception that escaped
Calculate(m, user_profile) ==
    LET Result(penalties, breakdown) ==
            LET Scored(final_score) ==
                    [NoFragility EXCEPT
                        !.status = "returned", !.score = final_score,
                        !.breakdown = breakdown,
                        !.interpretation = InterpretScore(final_score),
                        !.recommendations = GenerateRecommendations(user_profile, penalties)]
            IN  Scored(ClampScore(m.risk_profile.fragility_score * PenaltyDen
                                    + SumSeq(breakdown)))
        Weighted(penalties) ==
            Result(penalties,
                   [i \in 1..Len(Factors) |->
                        penalties[i] * WeightOf(m.risk_profile.fragility_calculation_weights[1],
                                                Factors[i])])
    IN  IF m.risk_profile.fragility_calculation_weights = <<>>
        THEN [NoFragility EXCEPT !.status = "raised", !.raised = "AttributeError"]
        ELSE Weighted(Penalties(user_profile))

-----------------------------------------------------------------------------
(* Specification of the fragility calculator: one risk profile, one athlete *)
(* profile, and the call calculate().                                       *)

RiskProfile(fragility_score, weights) ==
    [fragility_score |-> fragility_score, fragility_calculation_weights |-> weights]

\* a weights dict giving every factor the same weight
EvenWeights(w) == [f \in {Factors[i] : i \in 1..Len(Factors)} |-> w]

StandardWeights ==
    [f \in {Factors[i] : i \in 1..Len(Factors)} |->
        CASE f = "sleep_deviation" -> 25
          [] f = "stress_multiplier" -> 20
          [] f = "volume_variance" -> 20
          [] f = "intensity_frequency" -> 20
          [] OTHER -> 15]

FragilityConfigs ==
    { [risk_profile |-> RiskProfile(base, weights)] :
        base \in {0, 40, 100},
        weights \in { << StandardWeights >>, << EvenWeights(0) >>, << EvenWeights(500) >>,
                      << EvenWeights(0 - 300) >>,
                      << [f \in {"sleep_deviation", "unused_factor"} |-> 50] >>,
                      <<>> } }

FragilityProfiles ==
    { Profile(CurrentState(sleep, FALSE, stress, volume, consistency, hrv, illness),
              Goals("race_performance", "olympic", weeks),
              TrainingHistory(TRUE, 50), Constraints(TRUE, 6),
              Preferences(TRUE, "saturday", "monday")) :
        sleep \in {40, 65, 70, 75, 80, 120}, stress \in StressLevels,
        volume \in {0, 100, 400}, consistency \in {Nil, 2, 8},
        hrv \in HRVTrends, illness \in BOOLEAN, weeks \in {Nil, 4, 8, 20} }

InitFragility ==
    /\ methodology \in FragilityConfigs
    /\ \E p \in FragilityProfiles : heap = << p >>
    /\ caller = 1
    /\ recovery = <<>>
    /\ hiCalls = <<>>
    /\ phaseCalls = <<>>
    /\ sleepCalls = <<>>
    /\ validation = NoValidation
    /\ ruleCall = NoRuleCall
    /\ lookup = NoLookup
    /\ fragility = NoFragility
    /\ planner = NoPlanner
    /\ plan = NoPlan
    /\ firstPlan = NoPlan
    /\ analyzer = NoAnalyzer
    /\ sens = NoSens
    /\ calls = 0

\* FragilityCalculator(methodology).calculate(user_profile)
CalculateCall ==
    /\ fragility' = Calculate(methodology, heap[caller])
    /\ UNCHANGED <<methodology, hiCalls, phaseCalls, sleepCalls, recovery, heap, caller, validation, ruleCall, lookup, planner,
                   plan, firstPlan, analyzer, sens, calls>>

NextFragility == CalculateCall

SpecFragility == InitFragility /\ [][NextFragility]_vars

\* base_fragility + sum of weight_i * penalty_i, before any clamp
WeightedSum ==
    methodology.risk_profile.fragility_score * PenaltyDen
        + SumSeq([i \in 1..Len(Factors) |->
                    WeightOf(methodology.risk_profile.fragility_calculation_weights[1],
                             Factors[i]) * Penalties(heap[caller])[i]])

\* C5: the score a call of calculate() returns lies in [0, 1] and is the base
\* fragility plus the sum of weight times penalty over the five factors,
\* brought to 0 when below 0 and to 1 when above 1; the call returns
\* whenever the risk profile carries a weights dict.
ScoreIsClampedWeightedSum ==
    /\ fragility.status = "returned" =>
            /\ fragility.score >= 0
            /\ fragility.score <= ScoreDen
            /\ fragility.score = IF WeightedSum < 0 THEN 0
                                 ELSE IF WeightedSum > ScoreDen THEN ScoreDen
                                 ELSE WeightedSum
    /\ fragility.status = "raised" =>
            methodology.risk_profile.fragility_calculation_weights = <<>>

\* a returned score whose weighted sum lay above 1 and was clamped
ScoreClampedAtOne ==
    /\ fragility.status = "returned"
    /\ WeightedSum > ScoreDen
    /\ fragility.score = ScoreDen
-----------------------------------------------------------------------------
(* The plan generator (planner.py, plan_schemas.py).  Floats are exact      *)
(* fractions [n, d] in lowest terms with d > 0; percentages and multipliers *)
(* of the configuration are given in hundredths, volumes in tenths of an    *)
(* hour.                                                                    *)

RECURSIVE GCD(_, _)
GCD(a, b) == IF b = 0 THEN a ELSE GCD(b, a % b)

Frac(n, d) ==
    LET Reduced(g) == [n |-> n \div g, d |-> d \div g]
    IN  Reduced(GCD(Abs(n), d))

FracInt(k) == [n |-> k, d |-> 1]

\* a * b, cancelling across before multiplying
FracMul(a, b) ==
    LET Crossed(g, h) ==
            [n |-> (a.n \div g) * (b.n \div h), d |-> (a.d \div h) * (b.d \div g)]
    IN  Crossed(GCD(Abs(a.n), b.d), GCD(Abs(b.n), a.d))

FracAdd(a, b) ==
    LET Over(g) == Frac(a.n * (b.d \div g) + b.n * (a.d \div g), (a.d \div g) * b.d)
    IN  Over(GCD(a.d, b.d))

FracSub(a, b) == FracAdd(a, [n |-> 0 - b.n, d |-> b.d])

FracLt(a, b) == a.n * b.d < b.n * a.d
FracLe(a, b) == a.n * b.d <= b.n * a.d
FracMin(a, b) == IF FracLe(a, b) THEN a ELSE b
FracMax(a, b) == IF FracLe(b, a) THEN a ELSE b

\* int(x): truncation toward zero
IntOf(a) == IF a.n >= 0 THEN a.n \div a.d ELSE 0 - ((0 - a.n) \div a.d)


TrainingPhases == <<"base", "build", "peak", "taper">>
Weekdays ==
    <<"monday", "tuesday", "wednesday", "thursday", "friday", "saturday", "sunday">>

\* class PlanDecision: the decision point and the choice it records
PlanDecision(decision_point, outcome) ==
    [decision_point |-> decision_point, outcome |-> outcome]

\* _get_phase_percentages
GetPhasePercentages(m, weeks_to_race) ==
    IF weeks_to_race <= 6 THEN m.phase_distribution_config.short_plan_phases
    ELSE IF weeks_to_race <= 12 THEN m.phase_distribution_config.medium_plan_phases
    ELSE m.phase_distribution_config.long_plan_phases

\* a build phase left as allocated
UnreconciledBuild(weeks_to_race, base_weeks, build_weeks, peak_weeks, taper_weeks) ==
    build_weeks
\* the build weeks after "Ensure total matches weeks_to_race" in
\* _determine_phases
ReconcileBuild(weeks_to_race, base_weeks, build_weeks, peak_weeks, taper_weeks) ==
    build_weeks + (weeks_to_race - (base_weeks + build_weeks + peak_weeks + taper_weeks))

\* _determine_phases: the phase durations and the decision appended, or the
\* exception raised by comparing an absent volume_consistency_weeks
DeterminePhases(m, weeks_to_race, user_profile) ==
    LET Phases(base_weeks, build_weeks, peak_weeks, taper_weeks) ==
            [base |-> base_weeks, build |-> build_weeks,
             peak |-> peak_weeks, taper |-> taper_weeks]
        Decided(phases) ==
            [raised |-> "", phases |-> phases,
             decision |-> PlanDecision("Training Phase Distribution", phases)]
        Balanced(base_weeks, build_weeks, peak_weeks, taper_weeks) ==
            Decided(Phases(base_weeks,
                           ReconcileBuild(weeks_to_race, base_weeks, build_weeks,
                                          peak_weeks, taper_weeks),
                           peak_weeks, taper_weeks))
        Extended(base_weeks, build_weeks, peak_weeks, taper_weeks, extension_weeks) ==
            IF user_profile.current_state.volume_consistency_weeks
                    < m.phase_distribution_config.volume_consistency_threshold
            THEN Balanced(base_weeks + extension_weeks,
                          Max(1, build_weeks - extension_weeks), peak_weeks, taper_weeks)
            ELSE Balanced(base_weeks, build_weeks, peak_weeks, taper_weeks)
        Allocated(phase_config) ==
            Extended(Max(phase_config.min_base_weeks,
                         (weeks_to_race * phase_config.base_percent) \div 100),
                     Max(phase_config.min_build_weeks,
                         (weeks_to_race * phase_config.build_percent) \div 100),
                     Max(phase_config.min_peak_weeks,
                         (weeks_to_race * phase_config.peak_percent) \div 100),
                     Max(phase_config.min_taper_weeks,
                         (weeks_to_race * phase_config.taper_percent) \div 100),
                     m.phase_distribution_config.base_extension_weeks)
    IN  IF user_profile.current_state.volume_consistency_weeks = Nil
        THEN [raised |-> "TypeError", phases |-> Phases(0, 0, 0, 0),
              decision |-> PlanDecision("", Phases(0, 0, 0, 0))]
        ELSE Allocated(GetPhasePercentages(m, weeks_to_race))

\* _get_phase_for_week
GetPhaseForWeek(week_number, phases) ==
    IF week_number <= phases.base THEN "base"
    ELSE IF week_number <= phases.base + phases.build THEN "build"
    ELSE IF week_number <= phases.base + phases.build + phases.peak THEN "peak"
    ELSE "taper"

\* _determine_hi_frequency; the score is a numerator over ScoreDen
DetermineHiFrequency(fragility_score) ==
    LET Decided(hi_frequency) ==
            [hi_frequency |-> hi_frequency,
             decision |-> PlanDecision("High-Intensity Session Frequency", hi_frequency)]
    IN  Decided(IF fragility_score * 10 < 4 * ScoreDen THEN 3
                ELSE IF fragility_score * 10 < 6 * ScoreDen THEN 2
                ELSE 1)

\* class LoadRecoveryRatio of PeriodizationConfig
Ratio(load_weeks, recovery_weeks) ==
    [load_weeks |-> load_weeks, recovery_weeks |-> recovery_weeks]

\* class RecoveryWeekConfig of PeriodizationConfig; multipliers in hundredths
RecoveryWeekConfig(volume_multiplier_min, volume_multiplier_max, max_hi_sessions) ==
    [volume_multiplier_min |-> volume_multiplier_min,
     volume_multiplier_max |-> volume_multiplier_max,
     max_hi_sessions |-> max_hi_sessions]

\* class PeriodizationConfig; fragility_threshold in hundredths,
\* experience_threshold_years in tenths of a year, phase_deload_adjustments a
\* dict from phase names to hundredths
PeriodizationConfig(default_ratio, high_fragility_ratio, fragility_threshold, experience_threshold_years, recovery_week_config, phase_deload_adjustments, skip_final_mesocycle_recovery) ==
    [default_ratio |-> default_ratio, high_fragility_ratio |-> high_fragility_ratio,
     fragility_threshold |-> fragility_threshold,
     experience_threshold_years |-> experience_threshold_years,
     recovery_week_config |-> recovery_week_config,
     phase_deload_adjustments |-> phase_deload_adjustments,
     skip_final_mesocycle_recovery |-> skip_final_mesocycle_recovery]

NoAdjustments == [phase \in {} |-> 0]

\* PeriodizationConfig(): the defaults
DefaultPeriodizationConfig ==
    PeriodizationConfig(Ratio(3, 1), Ratio(2, 1), 60, 20, RecoveryWeekConfig(50, 60, 1),
                        NoAdjustments, TRUE)

\* _get_periodization_config
GetPeriodizationConfig(m) ==
    IF m.periodization_config # <<>> THEN m.periodization_config[1]
    ELSE DefaultPeriodizationConfig

\* _determine_load_recovery_ratio; years_training in tenths of a year
DetermineLoadRecoveryRatio(m, fragility_score, user_profile) ==
    LET Decided(ratio) ==
            [load_weeks |-> ratio.load_weeks, recovery_weeks |-> ratio.recovery_weeks,
             decision |-> PlanDecision("Load:Recovery Ratio Selection", ratio)]
        Selected(config, high_fragility, years_training) ==
            IF high_fragility \/ years_training < config.experience_threshold_years
            THEN Decided(config.high_fragility_ratio)
            ELSE Decided(config.default_ratio)
        Compared(config) ==
            Selected(config,
                     fragility_score * 100 > config.fragility_threshold * ScoreDen,
                     IF /\ user_profile.training_history.present
                        /\ user_profile.training_history.years_training # Nil
                        /\ user_profile.training_history.years_training # 0
                     THEN user_profile.training_history.years_training
                     ELSE 0)
    IN  Compared(GetPeriodizationConfig(m))

\* one entry of the mesocycle structure
WeekStructure(week_number, week_type, mesocycle_number, mesocycle_week, phase) ==
    [week_number |-> week_number, week_type |-> week_type,
     mesocycle_number |-> mesocycle_number, mesocycle_week |-> mesocycle_week,
     phase |-> phase]

\* a recovery block that starts one week early
IsRecoveryFromLastLoadWeek(c, week_num, week_in_mesocycle) ==
    /\ week_in_mesocycle >= c.load_weeks
    /\ ~(c.skip /\ week_num + 1 >= c.taper_start)
\* is_recovery of a non-taper week in _build_mesocycle_structure
IsRecoveryWeek(c, week_num, week_in_mesocycle) ==
    /\ week_in_mesocycle > c.load_weeks
    /\ ~(c.skip /\ week_num + 1 >= c.taper_start)

\* the loop of _build_mesocycle_structure from week week_num on; c carries
\* total_weeks, load_weeks, mesocycle_length, taper_start, phases and skip
RECURSIVE MesocycleFrom(_, _, _, _)
\* the loop with the mesocycle number left alone at each wrap
MesocycleNeverAdvanced(c, week_num, mesocycle_num, week_in_mesocycle) ==
    IF week_num > c.total_weeks THEN <<>>
    ELSE IF GetPhaseForWeek(week_num, c.phases) = "taper"
    THEN << WeekStructure(week_num, "load", Nil, Nil, "taper") >>
            \o MesocycleFrom(c, week_num + 1, mesocycle_num, week_in_mesocycle)
    ELSE << WeekStructure(week_num,
                          IF IsRecoveryWeek(c, week_num, week_in_mesocycle)
                          THEN "recovery" ELSE "load",
                          mesocycle_num, week_in_mesocycle,
                          GetPhaseForWeek(week_num, c.phases)) >>
            \o (IF week_in_mesocycle + 1 > c.mesocycle_length
                THEN MesocycleFrom(c, week_num + 1, mesocycle_num, 1)
                ELSE MesocycleFrom(c, week_num + 1, mesocycle_num, week_in_mesocycle + 1))
MesocycleFrom(c, week_num, mesocycle_num, week_in_mesocycle) ==
    IF week_num > c.total_weeks THEN <<>>
    ELSE IF GetPhaseForWeek(week_num, c.phases) = "taper"
    THEN << WeekStructure(week_num, "load", Nil, Nil, "taper") >>
            \o MesocycleFrom(c, week_num + 1, mesocycle_num, week_in_mesocycle)
    ELSE << WeekStructure(week_num,
                          IF IsRecoveryWeek(c, week_num, week_in_mesocycle)
                          THEN "recovery" ELSE "load",
                          mesocycle_num, week_in_mesocycle,
                          GetPhaseForWeek(week_num, c.phases)) >>
            \o (IF week_in_mesocycle + 1 > c.mesocycle_length
                THEN MesocycleFrom(c, week_num + 1, mesocycle_num + 1, 1)
                ELSE MesocycleFrom(c, week_num + 1, mesocycle_num, week_in_mesocycle + 1))

\* _build_mesocycle_structure
BuildMesocycleStructure(m, total_weeks, load_weeks, recovery_weeks, phases) ==
    LET IsRecovery(w) == w.week_type = "recovery"
        IsLoad(w) == w.week_type = "load"
        Decided(structure) ==
            [structure |-> structure,
             decision |-> PlanDecision("Mesocycle Structure",
                            [load_count |-> Len(SelectSeq(structure, IsLoad)),
                             recovery_count |-> Len(SelectSeq(structure, IsRecovery))])]
    IN  Decided(MesocycleFrom(
                    [total_weeks |-> total_weeks, load_weeks |-> load_weeks,
                     mesocycle_length |-> load_weeks + recovery_weeks,
                     taper_start |-> phases.base + phases.build + phases.peak + 1,
                     phases |-> phases,
                     skip |-> GetPeriodizationConfig(m).skip_final_mesocycle_recovery],
                    1, 1, 1))

\* a multiplier that ignores the configured bounds
UnclampedMultiplier(rc, x) == x
\* the clamp of _calculate_recovery_volume_multiplier
ClampMultiplier(rc, x) ==
    FracMax(Frac(rc.volume_multiplier_min, 100),
            FracMin(Frac(rc.volume_multiplier_max, 100), x))

\* _calculate_recovery_volume_multiplier
CalculateRecoveryVolumeMultiplier(m, fragility_score, phase) ==
    LET Adjusted(rc, base_multiplier, phase_adjustment) ==
            ClampMultiplier(rc, FracSub(base_multiplier, Frac(phase_adjustment, 100)))
        Interpolated(config) ==
            Adjusted(config.recovery_week_config,
                     FracSub(Frac(config.recovery_week_config.volume_multiplier_max, 100),
                             FracMul(Frac(config.recovery_week_config.volume_multiplier_max
                                           - config.recovery_week_config.volume_multiplier_min,
                                          100),
                                     Frac(fragility_score, ScoreDen))),
                     IF phase \in DOMAIN config.phase_deload_adjustments
                     THEN config.phase_deload_adjustments[phase] ELSE 0)
    IN  Interpolated(GetPeriodizationConfig(m))

\* day_order of _select_spaced_hi_days
DayOrder(day) == CHOOSE i \in 0..6 : Weekdays[i + 1] = day

InSeq(x, s) == \E i \in 1..Len(s) : s[i] = x

\* list.remove(x): the list without the first occurrence of x
Remove(s, x) ==
    LET At(i) == SubSeq(s, 1, i - 1) \o SubSeq(s, i + 1, Len(s))
    IN  At(CHOOSE i \in 1..Len(s) : s[i] = x /\ \A j \in 1..(i - 1) : s[j] # x)

\* sorted(available_days, key=day_order): insertion into a sorted list
RECURSIVE SortedDays(_)
SortedDays(days) ==
    LET Insert(day, rest) ==
            LET Before(d) == DayOrder(d) <= DayOrder(day)
                After(d) == DayOrder(d) > DayOrder(day)
            IN  SelectSeq(rest, Before) \o << day >> \o SelectSeq(rest, After)
    IN  IF days = <<>> THEN <<>>
        ELSE Insert(days[Len(days)], SortedDays(SubSeq(days, 1, Len(days) - 1)))

\* the selection loop of _select_spaced_hi_days from position i on
RECURSIVE SpacedFrom(_, _, _, _, _, _)
SpacedFrom(sorted_days, i, selected, last_index, gap, num_hi_sessions) ==
    IF i > Len(sorted_days) \/ Len(selected) >= num_hi_sessions THEN selected
    ELSE IF DayOrder(sorted_days[i]) - last_index >= gap
    THEN SpacedFrom(sorted_days, i + 1, Append(selected, sorted_days[i]),
                    DayOrder(sorted_days[i]), gap, num_hi_sessions)
    ELSE SpacedFrom(sorted_days, i + 1, selected, last_index, gap, num_hi_sessions)

\* the first days of the week, whatever their spacing
FirstDaysOfWeek(available_days, num_hi_sessions, min_gap) ==
    IF num_hi_sessions = 0 \/ available_days = <<>> THEN <<>>
    ELSE IF num_hi_sessions = 1
    THEN IF InSeq("tuesday", available_days) THEN << "tuesday" >>
         ELSE IF InSeq("wednesday", available_days) THEN << "wednesday" >>
         ELSE IF InSeq("thursday", available_days) THEN << "thursday" >>
         ELSE << SortedDays(available_days)[1] >>
    ELSE SubSeq(SortedDays(available_days), 1,
                Min(num_hi_sessions, Len(available_days)))
\* _select_spaced_hi_days
SelectSpacedHiDays(available_days, num_hi_sessions, min_gap) ==
    LET Single(sorted_days) ==
            IF InSeq("tuesday", sorted_days) THEN << "tuesday" >>
            ELSE IF InSeq("wednesday", sorted_days) THEN << "wednesday" >>
            ELSE IF InSeq("thursday", sorted_days) THEN << "thursday" >>
            ELSE << sorted_days[1] >>
        LastResort(sorted_days, selected) ==
            IF Len(selected) < num_hi_sessions
            THEN SubSeq(sorted_days, 1, Min(num_hi_sessions, Len(sorted_days)))
            ELSE selected
        Reduced(sorted_days, selected) ==
            IF Len(selected) < num_hi_sessions
            THEN LastResort(sorted_days,
                            SpacedFrom(sorted_days, 1, <<>>, 0 - 1, 1, num_hi_sessions))
            ELSE selected
        Several(sorted_days) ==
            Reduced(sorted_days,
                    SpacedFrom(sorted_days, 1, <<>>, 0 - min_gap, min_gap, num_hi_sessions))
        Sorted(sorted_days) ==
            IF num_hi_sessions = 1 THEN Single(sorted_days) ELSE Several(sorted_days)
    IN  IF num_hi_sessions = 0 \/ available_days = <<>> THEN <<>>
        ELSE Sorted(SortedDays(available_days))

\* class HIWorkoutTemplate
HIWorkoutTemplate(session_type, primary_zone, recommended_phases) ==
    [session_type |-> session_type, primary_zone |-> primary_zone,
     recommended_phases |-> recommended_phases]

\* str.lower() on the template strings of the configurations
LowerText(s) ==
    CASE s = "Run" -> "run"
      [] s = "Bike" -> "bike"
      [] s = "VO2max" -> "vo2max"
      [] s = "Threshold" -> "threshold"
      [] OTHER -> s

\* round(x) of a non-negative float: to the nearest int, halves to even
Round(x) ==
    LET Nearest(f, twice_rest) ==
            IF twice_rest < x.d THEN f
            ELSE IF twice_rest > x.d THEN f + 1
            ELSE IF f % 2 = 0 THEN f ELSE f + 1
    IN  Nearest(x.n \div x.d, 2 * (x.n % x.d))

\* _get_hi_workout_template (rotation_strategy round_robin or phase_specific)
GetHiWorkoutTemplate(m, session_index, phase, hi_sessions_per_week, week_number) ==
    LET IsThreshold(t) == LowerText(t.primary_zone) \in {"zone_3", "threshold", "tempo"}
        IsHi(t) == LowerText(t.primary_zone)
                        \in {"zone_4", "zone_5", "vo2max", "anaerobic", "sprint"}
        ForPhase(t) == phase \in t.recommended_phases
        Rotated(list, index) == list[((index + week_number) % Len(list)) + 1]
        Proportional(templates, threshold_sessions_target, threshold_templates,
                     hi_templates) ==
            IF session_index < threshold_sessions_target /\ threshold_templates # <<>>
            THEN Rotated(threshold_templates, session_index)
            ELSE IF hi_templates # <<>>
            THEN Rotated(hi_templates, session_index - threshold_sessions_target)
            ELSE Rotated(templates, session_index)
        Chosen(templates, threshold_target, high_target) ==
            IF threshold_target > 0 /\ high_target > 0
            THEN Proportional(templates,
                       Round(Frac(threshold_target * hi_sessions_per_week,
                                  threshold_target + high_target)),
                       SelectSeq(templates, IsThreshold), SelectSeq(templates, IsHi))
            ELSE Rotated(templates, session_index)
        Filtered(templates, phase_templates) ==
            Chosen(IF m.session_type_config.rotation_strategy = "phase_specific"
                      /\ phase_templates # <<>>
                   THEN phase_templates ELSE templates,
                   m.intensity_distribution_config.threshold_intensity_target,
                   m.intensity_distribution_config.high_intensity_target)
    IN  Filtered(m.session_type_config.hi_workout_templates,
                 SelectSeq(m.session_type_config.hi_workout_templates, ForPhase))

\* class TrainingSession; description is the leading label of the text
TrainingSession(day, session_type, primary_zone, duration_minutes, description) ==
    [day |-> day, session_type |-> session_type, primary_zone |-> primary_zone,
     duration_minutes |-> duration_minutes, description |-> description]

LowIntensityZones == {"active_recovery", "endurance"}
ThresholdZones == {"tempo", "threshold"}
HighIntensityZones == {"vo2max", "anaerobic", "sprint"}

\* session_type_map.get(..., SessionType.BIKE)
SessionTypeOf(name) ==
    IF LowerText(name) \in {"run", "swim", "bike"} THEN LowerText(name) ELSE "bike"

\* zone_map.get(..., IntensityZone.VO2MAX)
ZoneOf(name) ==
    CASE LowerText(name) = "zone_3" -> "threshold"
      [] LowerText(name) = "zone_4" -> "vo2max"
      [] LowerText(name) = "zone_5" -> "anaerobic"
      [] LowerText(name) \in {"threshold", "tempo", "vo2max", "anaerobic", "sprint"} ->
            LowerText(name)
      [] OTHER -> "vo2max"

\* every weekday is available, whatever the day count
AllDaysAvailable(num_training_days, rest_day) ==
    Weekdays
\* _get_available_days
GetAvailableDays(num_training_days, rest_day) ==
    LET NotRest(day) == day # rest_day
        First(available) == SubSeq(available, 1, Min(num_training_days, Len(available)))
    IN  First(IF rest_day # "" THEN SelectSeq(Weekdays, NotRest) ELSE Weekdays)

\* _get_intensity_targets
GetIntensityTargets(m, week_volume_minutes) ==
    [low |-> FracMul(week_volume_minutes,
                     Frac(m.intensity_distribution_config.low_intensity_target, 100)),
     threshold |-> FracMul(week_volume_minutes,
                     Frac(m.intensity_distribution_config.threshold_intensity_target, 100)),
     high |-> FracMul(week_volume_minutes,
                     Frac(m.intensity_distribution_config.high_intensity_target, 100))]

CountType(sessions, session_type) ==
    Cardinality({i \in 1..Len(sessions) : sessions[i].session_type = session_type})

\* the loop that fills the remaining days with easy aerobic sessions
RECURSIVE EasyFrom(_, _, _, _, _, _, _)
EasyFrom(training_days, i, sessions_to_add, duration_each, runs, bikes, swims) ==
    LET Added(session_type) ==
            << TrainingSession(training_days[i], session_type, "endurance",
                               duration_each, "Easy aerobic") >>
                \o EasyFrom(training_days, i + 1, sessions_to_add, duration_each,
                            IF session_type = "run" THEN runs + 1 ELSE runs,
                            IF session_type = "bike" THEN bikes + 1 ELSE bikes,
                            IF session_type = "swim" THEN swims + 1 ELSE swims)
    IN  IF i > sessions_to_add THEN <<>>
        ELSE Added(IF runs < 2 THEN "run"
                  ELSE IF bikes < 2 THEN "bike"
                  ELSE IF swims < 1 THEN "swim"
                  ELSE IF runs <= bikes /\ runs <= swims THEN "run"
                  ELSE IF bikes <= swims THEN "bike"
                  ELSE "swim")

RECURSIVE RemoveAll(_, _)
RemoveAll(s, xs) ==
    IF xs = <<>> THEN s
    ELSE RemoveAll(IF InSeq(xs[1], s) THEN Remove(s, xs[1]) ELSE s, Tail(xs))

\* _create_session_schedule; week_volume_hours is a fraction
CreateSessionSchedule(m, available_days, rest_day, long_workout_day, week_volume_hours, phase, hi_sessions_per_week, week_number) ==
    LET NotRest(day) == day # rest_day
        Filled(sessions, training_days, remaining_low_intensity, sessions_to_add) ==
            IF sessions_to_add > 0
            THEN sessions \o EasyFrom(training_days, 1, sessions_to_add,
                                      remaining_low_intensity \div sessions_to_add,
                                      CountType(sessions, "run"),
                                      CountType(sessions, "bike"),
                                      CountType(sessions, "swim"))
            ELSE sessions
        HiSession(day, template, duration) ==
            TrainingSession(day, SessionTypeOf(template.session_type),
                            ZoneOf(template.primary_zone), duration,
                            IF ZoneOf(template.primary_zone) \in ThresholdZones
                            THEN "Threshold" ELSE "High-intensity")
        Intense(sessions, training_days, low_intensity_target, hi_days,
                intensity_duration_each) ==
            Filled(sessions \o
                     [i \in 1..Len(hi_days) |->
                        HiSession(hi_days[i],
                                  GetHiWorkoutTemplate(m, i - 1, phase,
                                                       hi_sessions_per_week, week_number),
                                  intensity_duration_each)],
                   RemoveAll(training_days, hi_days),
                   IntOf(low_intensity_target),
                   Min(Len(RemoveAll(training_days, hi_days)), 3))
        Long(sessions, training_days, low_intensity_target, total_intensity_target) ==
            Intense(sessions, training_days, low_intensity_target,
                    SelectSpacedHiDays(training_days, hi_sessions_per_week, 2),
                    IF hi_sessions_per_week > 0
                    THEN IntOf(FracMul(total_intensity_target,
                                       Frac(1, Max(1, hi_sessions_per_week))))
                    ELSE 0)
        Placed(training_days, targets, long_duration) ==
            IF InSeq(long_workout_day, training_days)
            THEN Long(<< TrainingSession(long_workout_day,
                                         << "bike", "run", "bike" >>[(week_number % 3) + 1],
                                         "endurance", long_duration, "Long aerobic") >>,
                      Remove(training_days, long_workout_day),
                      FracSub(targets.low, FracInt(long_duration)),
                      FracAdd(targets.threshold, targets.high))
            ELSE Long(<<>>, training_days, targets.low,
                      FracAdd(targets.threshold, targets.high))
        Targeted(week_volume_minutes) ==
            Placed(SelectSeq(available_days, NotRest),
                   GetIntensityTargets(m, week_volume_minutes),
                   IntOf(FracMul(week_volume_minutes, Frac(35, 100))))
    IN  Targeted(FracMul(week_volume_hours, FracInt(60)))

\* _generate_week_notes: the kind of note and the percentage it quotes
GenerateWeekNotes(week_type, phase, volume_multiplier, week_structure) ==
    IF week_type = "recovery"
    THEN [note |-> "recovery",
          volume_percent |-> IntOf(FracMul(volume_multiplier, FracInt(100)))]
    ELSE IF phase = "taper" THEN [note |-> "taper", volume_percent |-> Nil]
    ELSE IF phase = "peak" THEN [note |-> "peak", volume_percent |-> Nil]
    ELSE IF week_structure.mesocycle_week = 1
    THEN [note |-> "mesocycle begins", volume_percent |-> Nil]
    ELSE [note |-> "", volume_percent |-> Nil]

\* the validators of TrainingSession
SessionRejected(session) ==
    session.duration_minutes < 5 \/ session.duration_minutes > 360

\* the field constraints and validators of TrainingWeek
WeekRejected(week) ==
    \/ week.week_number < 1
    \/ FracLt(week.total_volume_hours, FracInt(1))
    \/ FracLt(FracInt(30), week.total_volume_hours)
    \/ Len(week.sessions) < 1
    \/ Len(week.sessions) > 7
    \/ \E i, j \in 1..Len(week.sessions) : i # j /\ week.sessions[i].day = week.sessions[j].day
    \/ week.mesocycle_number # Nil /\ week.mesocycle_number < 1
    \/ week.mesocycle_week # Nil /\ (week.mesocycle_week < 1 \/ week.mesocycle_week > 6)
    \/ FracLt(week.volume_multiplier, FracInt(0))
    \/ FracLt(Frac(3, 2), week.volume_multiplier)

\* a recovery week that keeps the tier's high-intensity sessions
UncappedHiSessions(m, hi_sessions_per_week) ==
    hi_sessions_per_week
\* the effective_hi_sessions of a recovery week in _generate_week
RecoveryHiSessions(m, hi_sessions_per_week) ==
    Min(hi_sessions_per_week, GetPeriodizationConfig(m).recovery_week_config.max_hi_sessions)

\* _generate_week, given constraints and preferences: the TrainingWeek as
\* built, and whether a session or the week itself was rejected
GenerateWeek(m, week_structure, user_profile, fragility_score, hi_sessions_per_week, phases) ==
    LET Built(sessions, week_volume, volume_multiplier) ==
            [week_number |-> week_structure.week_number, phase |-> week_structure.phase,
             total_volume_hours |-> week_volume, sessions |-> sessions,
             week_notes |-> GenerateWeekNotes(week_structure.week_type,
                                              week_structure.phase, volume_multiplier,
                                              week_structure),
             week_type |-> week_structure.week_type,
             mesocycle_number |-> week_structure.mesocycle_number,
             mesocycle_week |-> week_structure.mesocycle_week,
             volume_multiplier |-> volume_multiplier]
        Scheduled(effective_hi_sessions, week_volume, volume_multiplier) ==
            Built(CreateSessionSchedule(
                      m,
                      GetAvailableDays(user_profile.constraints.available_training_days,
                                       user_profile.preferences.rest_day),
                      user_profile.preferences.rest_day,
                      user_profile.preferences.long_workout_day,
                      week_volume, week_structure.phase, effective_hi_sessions,
                      week_structure.week_number),
                  week_volume, volume_multiplier)
        Scaled(effective_hi_sessions, volume_multiplier) ==
            Scheduled(effective_hi_sessions,
                      FracMul(Frac(user_profile.current_state.weekly_volume_hours, 10),
                              volume_multiplier),
                      volume_multiplier)
        Taper(weeks_into_taper) ==
            IF weeks_into_taper = phases.taper THEN Frac(40, 100)
            ELSE IF weeks_into_taper = phases.taper - 1 THEN Frac(60, 100)
            ELSE Frac(70, 100)
    IN  IF week_structure.week_type = "recovery"
        THEN Scaled(RecoveryHiSessions(m, hi_sessions_per_week),
                    CalculateRecoveryVolumeMultiplier(m, fragility_score,
                                                      week_structure.phase))
        ELSE IF week_structure.phase = "taper"
        THEN Scaled(hi_sessions_per_week,
                    Taper(week_structure.week_number
                            - (phases.base + phases.build + phases.peak + 1) + 1))
        ELSE IF week_structure.phase = "peak" THEN Scaled(hi_sessions_per_week, FracInt(1))
        ELSE IF week_structure.phase = "build"
        THEN Scaled(hi_sessions_per_week, Frac(105, 100))
        ELSE Scaled(hi_sessions_per_week, FracInt(1))

\* the TrainingWeek could not be constructed
WeekFailed(week) ==
    (\E i \in 1..Len(week.sessions) : SessionRejected(week.sessions[i])) \/ WeekRejected(week)

\* the minutes of the sessions of the plan whose zone lies in zones
ZoneMinutes(weeks, zones) ==
    SumSeq([w \in 1..Len(weeks) |->
              SumSeq([i \in 1..Len(weeks[w].sessions) |->
                        IF weeks[w].sessions[i].primary_zone \in zones
                        THEN weeks[w].sessions[i].duration_minutes ELSE 0])])

\* TrainingPlan.calculate_intensity_distribution: the three percentages, or
\* nothing when IntensityDistributionSummary rejects a sum outside 99..101
CalculateIntensityDistribution(weeks) ==
    LET Summary(low, threshold, high) ==
            IF low + threshold + high = 0 THEN <<>>
            ELSE << [low_intensity_percent |-> Frac(100 * low, low + threshold + high),
                     threshold_percent |-> Frac(100 * threshold, low + threshold + high),
                     high_intensity_percent |-> Frac(100 * high, low + threshold + high)] >>
    IN  Summary(ZoneMinutes(weeks, LowIntensityZones), ZoneMinutes(weeks, ThresholdZones),
                ZoneMinutes(weeks, HighIntensityZones))

\* list.append of the decisions made by one generate() call
AppendDecisions(before, made) == before \o made

\* a plan length that falls back to 16 weeks
WeeksToRaceOr16(user_profile) ==
    IF user_profile.goals.weeks_to_race = Nil THEN 16
    ELSE user_profile.goals.weeks_to_race
\* user_profile.goals.weeks_to_race or 12 (the schema keeps a present value
\* between 1 and 52, so only an absent one is falsy)
WeeksToRace(user_profile) ==
    IF user_profile.goals.weeks_to_race = Nil THEN 12
    ELSE user_profile.goals.weeks_to_race

\* TrainingPlan.validate_weeks_count: the list has plan_duration_weeks weeks,
\* numbered from 1 in order
ValidateWeeksCount(plan_duration_weeks, weeks) ==
    /\ Len(weeks) = plan_duration_weeks
    /\ \A i \in 1..Len(weeks) : weeks[i].week_number = i

\* TrainingPlanGenerator.generate(user_profile), on a generator whose
\* plan_decisions list holds plan_decisions: the outcome of the call and the
\* list afterwards
Generate(m, plan_decisions, user_profile) ==
    LET Raised(e, decisions) ==
            [plan |-> [NoPlan EXCEPT !.status = "raised", !.raised = e],
             plan_decisions |-> decisions]
        Planned(score, weeks_to_race, weeks, decisions, distribution) ==
            IF ~ValidateWeeksCount(weeks_to_race, weeks) \/ distribution = <<>>
            THEN Raised("ValidationError", decisions)
            ELSE [plan |-> [NoPlan EXCEPT
                              !.status = "returned",
                              !.plan_duration_weeks = weeks_to_race,
                              !.weeks = weeks, !.fragility_score = score,
                              !.plan_decisions = decisions,
                              !.intensity_distribution = distribution],
                  plan_decisions |-> decisions]
        Built(score, weeks_to_race, weeks, decisions) ==
            IF \E w \in 1..Len(weeks) : WeekFailed(weeks[w])
            THEN Raised("ValidationError", decisions)
            ELSE Planned(score, weeks_to_race, weeks, decisions,
                         CalculateIntensityDistribution(weeks))
        Structured(score, weeks_to_race, phases, structure, hi, decisions) ==
            IF ~user_profile.constraints.present \/ ~user_profile.preferences.present
            THEN Raised("AttributeError", decisions)
            ELSE Built(score, weeks_to_race,
                       [w \in 1..Len(structure) |->
                           GenerateWeek(m, structure[w], user_profile, score,
                                        hi.hi_frequency, phases.phases)],
                       decisions)
        Cycled(score, weeks_to_race, phases, ratio, mesocycle, hi) ==
            Structured(score, weeks_to_race, phases, mesocycle.structure, hi,
                       AppendDecisions(plan_decisions,
                                       << phases.decision, ratio.decision,
                                          mesocycle.decision, hi.decision >>))
        Rationed(score, weeks_to_race, phases, ratio) ==
            Cycled(score, weeks_to_race, phases, ratio,
                   BuildMesocycleStructure(m, weeks_to_race, ratio.load_weeks,
                                           ratio.recovery_weeks, phases.phases),
                   DetermineHiFrequency(score))
        Phased(score, weeks_to_race, phases) ==
            IF phases.raised # "" THEN Raised(phases.raised, plan_decisions)
            ELSE Rationed(score, weeks_to_race, phases,
                          DetermineLoadRecoveryRatio(m, score, user_profile))
        Scored(fragility_result, weeks_to_race) ==
            IF fragility_result.status = "raised"
            THEN Raised(fragility_result.raised, plan_decisions)
            ELSE Phased(fragility_result.score, weeks_to_race,
                        DeterminePhases(m, weeks_to_race, user_profile))
    IN  Scored(Calculate(m, user_profile), WeeksToRace(user_profile))

\* a constructor that accepts every ValidationResult
ConstructUnchecked(validation_result) ==
    [NoPlanner EXCEPT !.status = "ready"]
\* TrainingPlanGenerator(methodology, validation_result)
Construct(validation_result) ==
    IF ~validation_result.approved
    THEN [NoPlanner EXCEPT !.status = "raised", !.raised = "ValueError"]
    ELSE [NoPlanner EXCEPT !.status = "ready"]

-----------------------------------------------------------------------------
(* Specification of the plan generator: one methodology, one profile, the   *)
(* validation of the profile, the construction of a generator from the       *)
(* ValidationResult and up to MaxCalls calls of generate().                  *)

MaxCalls == 2

PhasePercentages(base_percent, build_percent, peak_percent, taper_percent) ==
    [base_percent |-> base_percent, build_percent |-> build_percent,
     peak_percent |-> peak_percent, taper_percent |-> taper_percent,
     min_base_weeks |-> 1, min_build_weeks |-> 1, min_peak_weeks |-> 1,
     min_taper_weeks |-> 1]

StandardPhases ==
    [short_plan_phases |-> PhasePercentages(30, 30, 20, 20),
     medium_plan_phases |-> PhasePercentages(40, 30, 15, 15),
     long_plan_phases |-> PhasePercentages(45, 30, 15, 10),
     volume_consistency_threshold |-> 4, base_extension_weeks |-> 2]

IntensityDistributionConfig(low, threshold, high) ==
    [low_intensity_target |-> low, threshold_intensity_target |-> threshold,
     high_intensity_target |-> high]

PolarizedTemplates ==
    << HIWorkoutTemplate("run", "zone_5", {"build", "peak"}),
       HIWorkoutTemplate("bike", "VO2max", {"base", "build", "peak", "taper"}),
       HIWorkoutTemplate("swim", "zone_4", {"base"}) >>

PyramidalTemplates ==
    << HIWorkoutTemplate("Run", "threshold", {"base", "build"}),
       HIWorkoutTemplate("bike", "tempo", {"base", "build", "peak", "taper"}),
       HIWorkoutTemplate("row", "vo2max", {"build", "peak", "taper"}) >>

DeepDeload ==
    PeriodizationConfig(Ratio(2, 1), Ratio(1, 1), 50, 30, RecoveryWeekConfig(40, 70, 0),
                        [phase \in {"build"} |-> 5], FALSE)

PlannerConfigs ==
    { [assumptions |-> StandardAssumptions, exclusion_criteria |-> StandardCriteria,
       risk_profile |-> RiskProfile(base, << EvenWeights(20) >>),
       intensity_distribution_config |-> style.intensity,
       session_type_config |-> [hi_workout_templates |-> style.templates,
                                rotation_strategy |-> style.rotation],
       phase_distribution_config |-> StandardPhases,
       periodization_config |-> periodization] :
        base \in {20, 50},
        style \in { [intensity |-> IntensityDistributionConfig(80, 0, 20),
                     templates |-> PolarizedTemplates, rotation |-> "round_robin"],
                    [intensity |-> IntensityDistributionConfig(75, 15, 10),
                     templates |-> PyramidalTemplates, rotation |-> "phase_specific"] },
        periodization \in { <<>>, << DeepDeload >> } }

PlannerProfiles ==
    { Profile(CurrentState(sleep, injury, stress, volume, consistency, "stable", FALSE),
              Goals("race_performance", "olympic", weeks),
              TrainingHistory(TRUE, years), constraints, preferences) :
        sleep \in {72, 80}, injury \in BOOLEAN, stress \in {"low", "high"},
        volume \in {10, 100}, consistency \in {Nil, 2, 8}, weeks \in {Nil, 3, 8},
        years \in {Nil, 50},
        constraints \in {Constraints(FALSE, Nil), Constraints(TRUE, 6), Constraints(TRUE, 2)},
        preferences \in {Preferences(FALSE, "", ""), Preferences(TRUE, "saturday", "monday"),
                         Preferences(TRUE, "", "")} }

InitPlanner ==
    /\ methodology \in PlannerConfigs
    /\ \E p \in PlannerProfiles : heap = << p >>
    /\ caller = 1
    /\ recovery = <<>>
    /\ hiCalls = <<>>
    /\ phaseCalls = <<>>
    /\ sleepCalls = <<>>
    /\ validation = NoValidation
    /\ ruleCall = NoRuleCall
    /\ lookup = NoLookup
    /\ fragility = NoFragility
    /\ planner = NoPlanner
    /\ plan = NoPlan
    /\ firstPlan = NoPlan
    /\ analyzer = NoAnalyzer
    /\ sens = NoSens
    /\ calls = 0

\* validator.validate(user_profile), before a generator is constructed
ValidateForPlan ==
    /\ validation.status = "none"
    /\ validation' = Validate(methodology, heap[caller])
    /\ UNCHANGED <<methodology, hiCalls, phaseCalls, sleepCalls, recovery, heap, caller, ruleCall, lookup, fragility, planner,
                   plan, firstPlan, analyzer, sens, calls>>

\* TrainingPlanGenerator(methodology, validation_result)
ConstructCall ==
    /\ validation.status = "returned"
    /\ planner.status = "none"
    /\ planner' = Construct(validation)
    /\ UNCHANGED <<methodology, hiCalls, phaseCalls, sleepCalls, recovery, heap, caller, validation, ruleCall, lookup, fragility,
                   plan, firstPlan, analyzer, sens, calls>>

\* generator.generate(user_profile)
GenerateCall ==
    /\ planner.status = "ready"
    /\ calls < MaxCalls
    /\ LET Done(outcome) ==
            /\ plan' = outcome.plan
            /\ firstPlan' = IF calls = 0 THEN outcome.plan ELSE firstPlan
            /\ planner' = [planner EXCEPT !.plan_decisions = outcome.plan_decisions]
       IN  Done(Generate(methodology, planner.plan_decisions, heap[caller]))
    /\ calls' = calls + 1
    /\ UNCHANGED <<methodology, hiCalls, phaseCalls, sleepCalls, recovery, heap, caller, validation, ruleCall, lookup, fragility,
                   analyzer, sens>>

NextPlanner == ValidateForPlan \/ ConstructCall \/ GenerateCall

SpecPlanner == InitPlanner /\ [][NextPlanner]_vars

\* C2: a generator constructed from a ValidationResult whose approved flag is
\* False raised the precondition error, and then no plan, week or plan
\* decision exists; constructed from an approved result (status 'approved' or
\* 'warning') it did not raise.
ConstructorRequiresApproval ==
    planner.status # "none" =>
        /\ ~validation.approved =>
                /\ planner.status = "raised"
                /\ planner.raised = "ValueError"
                /\ planner.plan_decisions = <<>>
                /\ plan = NoPlan
                /\ firstPlan = NoPlan
        /\ validation.approved =>
                /\ validation.result \in {"approved", "warning"}
                /\ planner.status = "ready"
                /\ planner.raised = ""

\* a generator refused for a profile the validator refused
ConstructorRaisedOnRefusal ==
    /\ validation.status = "returned"
    /\ validation.result = "refused"
    /\ planner.status = "raised"

\* C3: every call of generate() on a generator constructed for an approved
\* profile returns a complete TrainingPlan: it raises nothing, whatever
\* optional fields of the profile are absent and whatever weekly volume and
\* day count the profile carries.
GenerateAlwaysReturnsPlan ==
    plan.status # "none" =>
        /\ plan.status = "returned"
        /\ Len(plan.weeks) = plan.plan_duration_weeks

\* C4: every plan generate() returns equals the plan a freshly constructed
\* generator returns for the profile, a second call returns a plan equal to
\* the first, and every returned plan carries exactly one PlanDecision for
\* each of the four decision points.
GenerateIsStateless ==
    plan.status = "returned" =>
        /\ plan = Generate(methodology, <<>>, heap[caller]).plan
        /\ plan = firstPlan
        /\ [i \in 1..Len(plan.plan_decisions) |-> plan.plan_decisions[i].decision_point]
                = << "Training Phase Distribution", "Load:Recovery Ratio Selection",
                     "Mesocycle Structure", "High-Intensity Session Frequency" >>
-----------------------------------------------------------------------------
(* SensitivityAnalyzer (src/src/sensitivity.py).  An assumption key is the  *)
(* text the caller passes; profile objects live in the heap and a           *)
(* reference is an index into it.                                           *)

\* the attribute a path segment names, among the attributes the paths of this
\* model name; "" stands for a name that no object has
AttrName(part) ==
    CASE part = <<"c","u","r","r","e","n","t","_","s","t","a","t","e">> -> "current_state"
      [] part = <<"g","o","a","l","s">> -> "goals"
      [] part = <<"t","r","a","i","n","i","n","g","_","h","i","s","t","o","r","y">> -> "training_history"
      [] part = <<"c","o","n","s","t","r","a","i","n","t","s">> -> "constraints"
      [] part = <<"p","r","e","f","e","r","e","n","c","e","s">> -> "preferences"
      [] part = <<"s","l","e","e","p","_","h","o","u","r","s">> -> "sleep_hours"
      [] part = <<"s","t","r","e","s","s","_","l","e","v","e","l">> -> "stress_level"
      [] part = <<"i","n","j","u","r","y","_","s","t","a","t","u","s">> -> "injury_status"
      [] part = <<"w","e","e","k","l","y","_","v","o","l","u","m","e","_","h","o","u","r","s">> -> "weekly_volume_hours"
      [] part = <<"w","e","e","k","s","_","t","o","_","r","a","c","e">> -> "weeks_to_race"
      [] part = <<"y","e","a","r","s","_","t","r","a","i","n","i","n","g">> -> "years_training"
      [] OTHER -> ""

\* the sub-models of UserProfile
SubModels == {"current_state", "goals", "training_history", "constraints", "preferences"}

\* what a traversal stands on: the UserProfile, one of its sub-models, None
\* or a plain value
Obj(kind, fields, value) == [kind |-> kind, fields |-> fields, value |-> value]

\* hasattr(current, name)
HasAttr(current, name) ==
    CASE current.kind = "UserProfile" -> name \in SubModels
      [] current.kind \in SubModels -> name \in DOMAIN current.fields \ {"present"}
      [] OTHER -> FALSE

\* the value of a field of a sub-model
FieldValue(kind, fields, name) ==
    CASE kind = "current_state" -> CurrentStateAttr(fields, name)
      [] kind = "goals" -> GoalsAttr(fields, name)
      [] kind = "training_history" ->
            (IF fields.years_training = Nil THEN NoneV
             ELSE FloatV(fields.years_training, 10))
      [] kind = "constraints" -> IntV(fields.available_training_days)
      [] OTHER -> NoneV

\* getattr(current, name), given hasattr(current, name)
GetAttr(current, name) ==
    IF current.kind = "UserProfile"
    THEN IF name \in {"training_history", "constraints", "preferences"}
            /\ ~current.fields[name].present
         THEN Obj("None", <<>>, NoneV)
         ELSE Obj(name, current.fields[name], ObjectV)
    ELSE Obj("value", <<>>, FieldValue(current.kind, current.fields, name))

RECURSIVE Traverse(_, _, _)
\* a traversal that takes a missing attribute for None
TraverseLenient(current, parts, i) ==
    IF i > Len(parts) THEN [raised |-> "", current |-> current]
    ELSE IF HasAttr(current, AttrName(parts[i]))
    THEN Traverse(GetAttr(current, AttrName(parts[i])), parts, i + 1)
    ELSE Traverse(Obj("None", <<>>, NoneV), parts, i + 1)
\* the traversal loop of _get_nested_field and _set_nested_field
Traverse(current, parts, i) ==
    IF i > Len(parts) THEN [raised |-> "", current |-> current]
    ELSE IF HasAttr(current, AttrName(parts[i]))
    THEN Traverse(GetAttr(current, AttrName(parts[i])), parts, i + 1)
    ELSE [raised |-> "ValueError", current |-> current]

\* _get_nested_field(obj, path)
GetNestedField(obj, path) ==
    LET Reached(end) == [raised |-> end.raised, value |-> end.current.value]
    IN  Reached(Traverse(Obj("UserProfile", obj, ObjectV), Split(path, <<".">>), 1))

\* the member of StressLevel with the value s
StressOf(s) ==
    CASE s = Chars("low") -> "low" [] s = Chars("moderate") -> "moderate" [] OTHER -> "high"

\* a value as the field name of a sub-model holds it
FieldOf(name, v) ==
    CASE name \in {"sleep_hours", "weekly_volume_hours", "years_training"} ->
            (IF v.t = "none" THEN Nil ELSE (v.n * 10) \div v.d)
      [] name = "injury_status" -> v.b
      [] name = "stress_level" -> StressOf(v.s)
      [] OTHER -> (IF v.t = "none" THEN Nil ELSE v.n)

\* None as the optional sub-model name of a UserProfile holds it
AbsentModel(name) ==
    CASE name = "training_history" -> TrainingHistory(FALSE, Nil)
      [] name = "constraints" -> Constraints(FALSE, Nil)
      [] OTHER -> Preferences(FALSE, "", "")

\* _set_nested_field(obj, path, value): the object afterwards
SetNestedField(obj, path, value) ==
    LET SetAttr(parent, final_field) ==
            IF ~HasAttr(parent, final_field) THEN [raised |-> "ValueError", obj |-> obj]
            ELSE IF parent.kind = "UserProfile"
            THEN [raised |-> "",
                  obj |-> [obj EXCEPT ![final_field] = AbsentModel(final_field)]]
            ELSE [raised |-> "",
                  obj |-> [obj EXCEPT ![parent.kind][final_field] =
                                            FieldOf(final_field, value)]]
        Parent(parts, end) ==
            IF end.raised # "" THEN [raised |-> end.raised, obj |-> obj]
            ELSE SetAttr(end.current, AttrName(parts[Len(parts)]))
        Walk(parts) ==
            Parent(parts, Traverse(Obj("UserProfile", obj, ObjectV),
                                   SubSeq(parts, 1, Len(parts) - 1), 1))
    IN  Walk(Split(path, <<".">>))

\* a copy that shares the object with the original
ModelCopyShared(h, ref) == [heap |-> h, ref |-> ref]
\* obj.model_copy(deep=True): a new object with equal fields
ModelCopy(h, ref) == [heap |-> Append(h, h[ref]), ref |-> Len(h) + 1]

\* an Optional value: <<>> for None, << x >> for x
Some(x) == << x >>

\* _calculate_avg_hi_sessions(training_plan)
CalculateAvgHiSessions(training_plan) ==
    IF Len(training_plan.weeks) = 0 THEN FracInt(0)
    ELSE Frac(SumSeq([w \in 1..Len(training_plan.weeks) |->
                        Len(SelectSeq(training_plan.weeks[w].sessions,
                                      LAMBDA s : s.primary_zone \in HighIntensityZones))]),
              Len(training_plan.weeks))

RECURSIVE VolumeFrom(_, _)
VolumeFrom(weeks, i) ==
    IF i > Len(weeks) THEN FracInt(0)
    ELSE FracAdd(weeks[i].total_volume_hours, VolumeFrom(weeks, i + 1))

\* TrainingPlan.get_average_weekly_volume
GetAverageWeeklyVolume(training_plan) ==
    IF Len(training_plan.weeks) = 0 THEN FracInt(0)
    ELSE FracMul(VolumeFrom(training_plan.weeks, 1), Frac(1, Len(training_plan.weeks)))

\* TrainingPlan.get_phase_breakdown: the number of weeks of each phase (a
\* phase without weeks, absent from the dict, counts 0)
GetPhaseBreakdown(training_plan) ==
    [p \in 1..Len(TrainingPhases) |->
        Len(SelectSeq(training_plan.weeks, LAMBDA week : week.phase = TrainingPhases[p]))]

FracAbs(a) == [n |-> Abs(a.n), d |-> a.d]

\* _compare_plans(baseline_plan, new_plan): the PlanAdjustmentSummary
ComparePlans(baseline_plan, new_plan) ==
    LET Summary(hi_delta, volume_delta, baseline_intensity, new_intensity) ==
            [hi_sessions_per_week_delta |->
                IF FracLt(Frac(1, 100), FracAbs(hi_delta)) THEN Some(hi_delta) ELSE <<>>,
             volume_delta_hours |->
                IF FracLt(Frac(1, 10), FracAbs(volume_delta)) THEN Some(volume_delta)
                ELSE <<>>,
             phase_distribution_changed |->
                GetPhaseBreakdown(baseline_plan) # GetPhaseBreakdown(new_plan),
             intensity_distribution_delta |->
                IF baseline_intensity # <<>> /\ new_intensity # <<>>
                THEN Some([low_intensity |->
                              FracSub(new_intensity[1].low_intensity_percent,
                                      baseline_intensity[1].low_intensity_percent),
                           threshold |->
                              FracSub(new_intensity[1].threshold_percent,
                                      baseline_intensity[1].threshold_percent),
                           high_intensity |->
                              FracSub(new_intensity[1].high_intensity_percent,
                                      baseline_intensity[1].high_intensity_percent)])
                ELSE <<>>]
    IN  Summary(FracSub(CalculateAvgHiSessions(new_plan),
                        CalculateAvgHiSessions(baseline_plan)),
                FracSub(GetAverageWeeklyVolume(new_plan),
                        GetAverageWeeklyVolume(baseline_plan)),
                baseline_plan.intensity_distribution, new_plan.intensity_distribution)

\* SensitivityAnalyzer(methodology, baseline_profile, baseline_validation,
\* baseline_plan)
NewSensitivityAnalyzer(baseline_profile, baseline_validation, baseline_plan) ==
    [status |-> "ready", baseline_profile |-> baseline_profile,
     baseline_validation |-> baseline_validation, baseline_plan |-> baseline_plan]

\* an analyzer that takes the scenario it validated as its next baseline
SelfRebased(self, new_validation) ==
    [self EXCEPT !.baseline_validation = new_validation]
\* the analyzer after modify_assumption: the method assigns no attribute of
\* self
SelfAfter(self, new_validation) == self

\* a baseline fragility that is calculated for a refused baseline too
BaselineFragilityOfAny(m, self, baseline) ==
    IF self.baseline_validation.fragility_score # Nil
    THEN Some(self.baseline_validation.fragility_score)
    ELSE Some(Calculate(m, baseline).score)
\* step 7 of modify_assumption: the baseline fragility, None when the
\* baseline was not approved
BaselineFragility(m, self, baseline) ==
    IF ~self.baseline_validation.approved THEN <<>>
    ELSE IF self.baseline_validation.fragility_score # Nil
    THEN Some(self.baseline_validation.fragility_score)
    ELSE Some(Calculate(m, baseline).score)

\* the value x, once computed, bound in F
Let(x, F(_)) == CHOOSE r \in { F(v) : v \in {x} } : TRUE

\* modify_assumption(assumption_key, new_value) on the analyzer self, with
\* the objects of the heap h: the heap and the analyzer afterwards, and the
\* SensitivityResult or the exception that escaped
ModifyAssumption(m, h, self, assumption_key, new_value) ==
    LET Raised(heap_after, e) ==
            [heap |-> heap_after, self |-> self,
             result |-> [NoResult EXCEPT !.status = "raised", !.raised = e,
                            !.modified_assumption = assumption_key,
                            !.new_value = new_value]]
        Returned(heap_after, original_value, new_validation, baseline_fragility,
                 new_fragility, plan_adjustments) ==
            [heap |-> heap_after, self |-> SelfAfter(self, new_validation),
             result |->
                [status |-> "returned", raised |-> "",
                 modified_assumption |-> assumption_key,
                 original_value |-> original_value, new_value |-> new_value,
                 original_validation_status |-> self.baseline_validation.result,
                 new_validation_status |-> new_validation.result,
                 validation_changed |->
                    self.baseline_validation.result # new_validation.result,
                 new_violations |->
                    IF ~new_validation.approved
                    THEN Some([g \in 1..Len(new_validation.safety_gates) |->
                                  new_validation.safety_gates[g].condition])
                    ELSE <<>>,
                 original_fragility |-> baseline_fragility,
                 new_fragility |-> new_fragility,
                 fragility_delta |->
                    IF new_fragility # <<>> /\ baseline_fragility # <<>>
                    THEN Some(new_fragility[1] - baseline_fragility[1]) ELSE <<>>,
                 plan_adjustments |-> plan_adjustments]]
    IN
    \* 1. clone the baseline profile
    Let(ModelCopy(h, self.baseline_profile), LAMBDA modified_profile :
    \* 2. get the original value
    Let(GetNestedField(modified_profile.heap[self.baseline_profile], assumption_key),
        LAMBDA original :
    IF original.raised # "" THEN Raised(modified_profile.heap, original.raised) ELSE
    \* 3. update the specified field
    Let(SetNestedField(modified_profile.heap[modified_profile.ref], assumption_key,
                       new_value),
        LAMBDA updated :
    IF updated.raised # "" THEN Raised(modified_profile.heap, updated.raised) ELSE
    Let([modified_profile.heap EXCEPT ![modified_profile.ref] = updated.obj],
        LAMBDA heap_after :
    \* 4. re-run validation
    Let(Validate(m, heap_after[modified_profile.ref]), LAMBDA new_validation :
    IF new_validation.status = "raised" THEN Raised(heap_after, new_validation.raised)
    ELSE IF ~new_validation.approved
    THEN Returned(heap_after, original.value, new_validation, <<>>, <<>>, <<>>) ELSE
    \* 7. recalculate fragility
    Let(Calculate(m, heap_after[modified_profile.ref]), LAMBDA fragility_result :
    IF fragility_result.status = "raised"
    THEN Raised(heap_after, fragility_result.raised) ELSE
    Let(BaselineFragility(m, self, heap_after[self.baseline_profile]),
        LAMBDA baseline_fragility :
    \* 8. regenerate the plan and compare
    IF ~(self.baseline_validation.approved /\ self.baseline_plan # <<>>)
    THEN Returned(heap_after, original.value, new_validation, baseline_fragility,
                  Some(fragility_result.score), <<>>) ELSE
    Let(Generate(m, Construct(new_validation).plan_decisions,
                 heap_after[modified_profile.ref]).plan,
        LAMBDA new_plan :
    IF new_plan.status = "raised" THEN Raised(heap_after, new_plan.raised)
    ELSE Returned(heap_after, original.value, new_validation, baseline_fragility,
                  Some(fragility_result.score),
                  Some(ComparePlans(self.baseline_plan[1], new_plan)))))))))))

-----------------------------------------------------------------------------
(* Specification of the sensitivity analyzer: one methodology, one profile, *)
(* its validation, optionally a baseline plan, the construction of an       *)
(* analyzer and up to MaxModifications calls of modify_assumption().  The   *)
(* values assigned are of the type of the field they are assigned to.       *)

MaxModifications == 2

\* a weights dict without a sleep weight and with a stress weight that
\* takes a high-stress profile to the upper clamp
StressHeavyWeights ==
    [f \in {Factors[i] : i \in 1..Len(Factors)} |->
        CASE f = "sleep_deviation" -> 0
          [] f = "stress_multiplier" -> 100
          [] OTHER -> 20]

\* the round-robin methodology with even weights and the phase-specific one
\* with the stress-heavy weights, both with the default periodization
SensitivityConfigs ==
    { [c EXCEPT !.risk_profile =
            RiskProfile(20, << IF c.session_type_config.rotation_strategy = "round_robin"
                               THEN EvenWeights(20) ELSE StressHeavyWeights >>)] :
        c \in { k \in PlannerConfigs :
                  k.risk_profile.fragility_score = 20 /\ k.periodization_config = <<>> } }

SensitivityProfiles ==
    { Profile(CurrentState(72, injury, stress, 100, 8, "stable", FALSE),
              Goals("race_performance", "olympic", weeks),
              TrainingHistory(history, IF history THEN 50 ELSE Nil),
              Constraints(TRUE, 6), Preferences(TRUE, "saturday", "monday")) :
        injury \in BOOLEAN, stress \in {"low", "high"}, weeks \in {3, 8},
        history \in BOOLEAN }

Modification(assumption_key, new_value) ==
    [assumption_key |-> assumption_key, new_value |-> new_value]

Modifications ==
    { Modification(<<"c","u","r","r","e","n","t","_","s","t","a","t","e",".","s","l","e","e","p","_","h","o","u","r","s">>, FloatV(80, 10)),
      Modification(<<"c","u","r","r","e","n","t","_","s","t","a","t","e",".","s","t","r","e","s","s","_","l","e","v","e","l">>,
                   EnumV(Chars(StressMember("moderate")), Chars("moderate"))),
      Modification(<<"c","u","r","r","e","n","t","_","s","t","a","t","e",".","i","n","j","u","r","y","_","s","t","a","t","u","s">>, BoolV(TRUE)),
      Modification(<<"c","u","r","r","e","n","t","_","s","t","a","t","e",".","i","n","j","u","r","y","_","s","t","a","t","u","s">>, BoolV(FALSE)),
      Modification(<<"c","u","r","r","e","n","t","_","s","t","a","t","e",".","w","e","e","k","l","y","_","v","o","l","u","m","e","_","h","o","u","r","s">>, FloatV(250, 10)),
      Modification(<<"g","o","a","l","s",".","w","e","e","k","s","_","t","o","_","r","a","c","e">>, IntV(4)),
      Modification(<<"t","r","a","i","n","i","n","g","_","h","i","s","t","o","r","y",".","y","e","a","r","s","_","t","r","a","i","n","i","n","g">>, FloatV(10, 10)),
      Modification(<<"c","o","n","s","t","r","a","i","n","t","s">>, NoneV),
      Modification(<<"v","i","t","a","l","s",".","s","l","e","e","p","_","h","o","u","r","s">>, FloatV(80, 10)),
      Modification(<<"c","u","r","r","e","n","t","_","s","t","a","t","e",".","n","o","n","e","x","i","s","t","e","n","t","_","f","i","e","l","d">>, IntV(42)) }

InitSensitivity ==
    /\ methodology \in SensitivityConfigs
    /\ \E p \in SensitivityProfiles : heap = << p >>
    /\ caller = 1
    /\ recovery = <<>>
    /\ hiCalls = <<>>
    /\ phaseCalls = <<>>
    /\ sleepCalls = <<>>
    /\ validation = NoValidation
    /\ ruleCall = NoRuleCall
    /\ lookup = NoLookup
    /\ fragility = NoFragility
    /\ planner = NoPlanner
    /\ plan = NoPlan
    /\ firstPlan = NoPlan
    /\ analyzer = NoAnalyzer
    /\ sens = NoSens
    /\ calls = 0

\* SensitivityAnalyzer(methodology, profile, validation, plan or None)
NewAnalyzerCall ==
    /\ validation.status = "returned"
    /\ analyzer.status = "none"
    /\ analyzer' = NewSensitivityAnalyzer(caller, validation,
                                          IF plan.status = "returned" THEN Some(plan)
                                          ELSE <<>>)
    /\ sens' = [sens EXCEPT !.original = << heap[caller] >>]
    /\ UNCHANGED <<methodology, hiCalls, phaseCalls, sleepCalls, recovery, heap, caller, validation, ruleCall, lookup, fragility,
                   planner, plan, firstPlan, calls>>

\* analyzer.modify_assumption(assumption_key, new_value); the copy, local to
\* the call, is unreachable when the call ends
ModifyAssumptionCall ==
    /\ analyzer.status = "ready"
    /\ sens.calls < MaxModifications
    /\ \E mod \in Modifications :
        \E outcome \in { ModifyAssumption(methodology, heap, analyzer,
                                          mod.assumption_key, mod.new_value) } :
            /\ heap' = SubSeq(outcome.heap, 1, Len(heap))
            /\ analyzer' = outcome.self
            /\ sens' = [sens EXCEPT !.calls = sens.calls + 1,
                                    !.result = outcome.result]
    /\ UNCHANGED <<methodology, hiCalls, phaseCalls, sleepCalls, recovery, caller, validation, ruleCall, lookup, fragility,
                   planner, plan, firstPlan, calls>>

NextSensitivity ==
    ValidateForPlan \/ ConstructCall \/ GenerateCall \/ NewAnalyzerCall
        \/ ModifyAssumptionCall

SpecSensitivity == InitSensitivity /\ [][NextSensitivity]_vars

\* C6: after any sequence of modify_assumption calls, returned or raised,
\* the profile the analyzer holds as its baseline and the profile object of
\* the caller have the fields they had when the analyzer was constructed;
\* the calls leave no other object behind.
BaselineNeverMutated ==
    analyzer.status = "ready" =>
        /\ heap[caller] = sens.original[1]
        /\ heap[analyzer.baseline_profile] = sens.original[1]
        /\ Len(heap) = 1

\* a second call has returned after writing a value that differs from the
\* baseline's
BaselineKeptAfterWrite ==
    /\ sens.calls >= 2
    /\ sens.result.status = "returned"
    /\ ~PyEq(sens.result.original_value, sens.result.new_value)
    /\ heap[caller] = sens.original[1]

-----------------------------------------------------------------------------
(* Further properties of the validator, under SpecValidator.                *)

\* the indices, ascending, of the triggered criteria that are blocking
\* (blocking = TRUE) or not blocking (blocking = FALSE)
TriggeredOfSeverity(blocking) ==
    SelectSeq([i \in 1..Len(methodology.exclusion_criteria) |-> i],
              LAMBDA i : /\ i \in TriggeredCriteria
                         /\ (methodology.exclusion_criteria[i].severity = "blocking")
                                = blocking)

\* C11: the violation list of a ValidationResult holds one GateViolation for
\* each triggered exclusion criterion and none for the others: first those of
\* the blocking criteria, in configuration order, then those of the warning
\* criteria, in configuration order.
ViolationsAreTriggeredBlockingFirst ==
    validation.status = "returned" =>
        /\ Len(validation.safety_gates) = Cardinality(TriggeredCriteria)
        /\ validation.safety_gates =
              [k \in 1..Cardinality(TriggeredCriteria) |->
                  [condition |-> methodology.exclusion_criteria[
                        (TriggeredOfSeverity(TRUE) \o TriggeredOfSeverity(FALSE))[k]].condition,
                   threshold |-> methodology.exclusion_criteria[
                        (TriggeredOfSeverity(TRUE) \o TriggeredOfSeverity(FALSE))[k]].threshold,
                   severity |-> methodology.exclusion_criteria[
                        (TriggeredOfSeverity(TRUE) \o TriggeredOfSeverity(FALSE))[k]].severity]]
        /\ \A i, j \in 1..Len(validation.safety_gates) :
              i < j => ~(validation.safety_gates[i].severity = "warning"
                            /\ validation.safety_gates[j].severity = "blocking")

\* a warning criterion configured before a blocking one, both triggered
WarningConfiguredBeforeBlocking ==
    /\ validation.status = "returned"
    /\ \E i, j \in TriggeredCriteria :
          /\ i < j
          /\ methodology.exclusion_criteria[i].severity = "warning"
          /\ methodology.exclusion_criteria[j].severity = "blocking"
    /\ validation.safety_gates[1].severity = "blocking"
-----------------------------------------------------------------------------
(* Further properties of the plan generator, under SpecPlanner.             *)

\* C12: every plan generate() returns has as many weeks as its
\* plan_duration_weeks, which is the profile's weeks_to_race or 12 when that
\* is absent, and the k-th week of the list has week_number k.
WeeksMatchDurationAndNumbering ==
    plan.status = "returned" =>
        /\ plan.plan_duration_weeks =
              (IF heap[caller].goals.weeks_to_race = Nil THEN 12
               ELSE heap[caller].goals.weeks_to_race)
        /\ DOMAIN plan.weeks = 1..plan.plan_duration_weeks
        /\ \A k \in 1..plan.plan_duration_weeks : plan.weeks[k].week_number = k

\* a plan returned for a profile without weeks_to_race: twelve weeks
TwelveWeeksWhenAbsent ==
    /\ plan.status = "returned"
    /\ heap[caller].goals.weeks_to_race = Nil
    /\ Len(plan.weeks) = 12
    /\ plan.weeks[12].week_number = 12
\* the available-day set of the profile: the weekdays other than the
\* preferred rest day, Monday first, cut to available_training_days
AvailableDaySet ==
    LET Others == SelectSeq(Weekdays, LAMBDA day : day # heap[caller].preferences.rest_day)
    IN  { Others[i] : i \in 1..Min(heap[caller].constraints.available_training_days,
                                   Len(Others)) }

\* C13: in every week of a returned plan the session days are pairwise
\* distinct and every session day is one of the available days, so that no
\* session falls on the preferred rest day.
SessionDaysDistinctAndAvailable ==
    plan.status = "returned" =>
        \A w \in 1..Len(plan.weeks) :
            /\ \A i, j \in 1..Len(plan.weeks[w].sessions) :
                  i # j => plan.weeks[w].sessions[i].day # plan.weeks[w].sessions[j].day
            /\ \A i \in 1..Len(plan.weeks[w].sessions) :
                  /\ plan.weeks[w].sessions[i].day \in AvailableDaySet
                  /\ plan.weeks[w].sessions[i].day # heap[caller].preferences.rest_day

\* a returned plan for two available days and a Monday rest day whose first
\* week fills the two days after Monday
TwoDaysBothUsed ==
    /\ plan.status = "returned"
    /\ heap[caller].constraints.available_training_days = 2
    /\ heap[caller].preferences.rest_day = "monday"
    /\ { plan.weeks[1].sessions[i].day : i \in 1..Len(plan.weeks[1].sessions) }
          = {"tuesday", "wednesday"}
\* the distance in percentage points between a share of the plan's minutes
\* and the configured target
WithinTolerance(percent, target) ==
    FracLe(FracAbs(FracSub(percent, FracInt(target))), FracInt(10))

\* C14: across a returned plan the share of session minutes in the low, the
\* threshold and the high zone group each lies within 10 percentage points of
\* the methodology's configured target for the group.
DistributionWithinTenPoints ==
    plan.status = "returned" =>
        /\ WithinTolerance(plan.intensity_distribution[1].low_intensity_percent,
                           methodology.intensity_distribution_config.low_intensity_target)
        /\ WithinTolerance(plan.intensity_distribution[1].threshold_percent,
                           methodology.intensity_distribution_config.threshold_intensity_target)
        /\ WithinTolerance(plan.intensity_distribution[1].high_intensity_percent,
                           methodology.intensity_distribution_config.high_intensity_target)
\* the number of sessions of a week in a threshold-or-above zone
HiSessionCount(week) ==
    Cardinality({ i \in 1..Len(week.sessions) :
                    week.sessions[i].primary_zone \in ThresholdZones \union HighIntensityZones })

\* the weekly high-intensity session count of the fragility tier of a score
\* given as a numerator over ScoreDen
TierHiCount(fragility_score) ==
    IF fragility_score * 10 < 4 * ScoreDen THEN 3
    ELSE IF fragility_score * 10 < 6 * ScoreDen THEN 2
    ELSE 1

\* C15: every week of a returned plan that is not a recovery week holds
\* exactly the fragility tier's number of sessions in a threshold-or-above
\* zone: 3 below 0.4, 2 from 0.4 and below 0.6, 1 from 0.6.
LoadWeeksCarryTierHiCount ==
    plan.status = "returned" =>
        \A w \in 1..Len(plan.weeks) :
            plan.weeks[w].week_type # "recovery" =>
                HiSessionCount(plan.weeks[w]) = TierHiCount(plan.fragility_score)
\* a returned plan whose first load week has fewer threshold-or-above
\* sessions than the tier asks for
LoadWeekBelowTier ==
    /\ plan.status = "returned"
    /\ plan.weeks[1].week_type = "load"
    /\ HiSessionCount(plan.weeks[1]) < TierHiCount(plan.fragility_score)

\* C16: every recovery week of a returned plan holds at most
\* min(tier count, configured recovery max_hi_sessions) sessions in a
\* threshold-or-above zone, so none at all under a cap of 0.
RecoveryWeeksRespectHiCap ==
    plan.status = "returned" =>
        \A w \in 1..Len(plan.weeks) :
            plan.weeks[w].week_type = "recovery" =>
                /\ HiSessionCount(plan.weeks[w])
                      <= TierHiCount(plan.fragility_score)
                /\ HiSessionCount(plan.weeks[w])
                      <= GetPeriodizationConfig(methodology).recovery_week_config.max_hi_sessions

\* a returned plan under a recovery cap of 0 with a recovery week free of
\* threshold-or-above sessions next to a load week that has some
RecoveryWeekWithoutHi ==
    /\ plan.status = "returned"
    /\ GetPeriodizationConfig(methodology).recovery_week_config.max_hi_sessions = 0
    /\ \E w \in 1..Len(plan.weeks) :
          /\ plan.weeks[w].week_type = "recovery"
          /\ HiSessionCount(plan.weeks[w]) = 0
    /\ \E w \in 1..Len(plan.weeks) :
          /\ plan.weeks[w].week_type = "load"
          /\ HiSessionCount(plan.weeks[w]) > 0
\* the weeks of the plan outside the taper phase, in order
NonTaperWeeks == SelectSeq(plan.weeks, LAMBDA week : week.phase # "taper")

\* the load:recovery ratio generate() selects for the profile
SelectedRatio == DetermineLoadRecoveryRatio(methodology, plan.fragility_score, heap[caller])

\* C17: with the selected load:recovery ratio L:R, every window of L+R
\* consecutive non-taper weeks of a returned plan holds at most R recovery
\* weeks, no recovery week is a taper week, and two recovery blocks that
\* follow each other are separated by at least L load weeks.
RecoveryWeeksFollowRatio ==
    plan.status = "returned" =>
        /\ \A start \in 1..Len(NonTaperWeeks) :
              start + SelectedRatio.load_weeks + SelectedRatio.recovery_weeks - 1
                    <= Len(NonTaperWeeks) =>
                 Cardinality({ k \in start..(start + SelectedRatio.load_weeks
                                                  + SelectedRatio.recovery_weeks - 1) :
                                 NonTaperWeeks[k].week_type = "recovery" })
                    <= SelectedRatio.recovery_weeks
        /\ \A w \in 1..Len(plan.weeks) :
              plan.weeks[w].week_type = "recovery" => plan.weeks[w].phase # "taper"
        /\ \A i, j \in 1..Len(NonTaperWeeks) :
              (/\ i + 1 < j
               /\ NonTaperWeeks[i].week_type = "recovery"
               /\ NonTaperWeeks[j].week_type = "recovery"
               /\ \A k \in (i + 1)..(j - 1) : NonTaperWeeks[k].week_type = "load")
                  => j - i - 1 >= SelectedRatio.load_weeks

\* a returned plan with two recovery blocks and a taper
TwoRecoveryBlocksBeforeTaper ==
    /\ plan.status = "returned"
    /\ \E i, j \in 1..Len(NonTaperWeeks) :
          /\ i + 1 < j
          /\ NonTaperWeeks[i].week_type = "recovery"
          /\ NonTaperWeeks[j].week_type = "recovery"
          /\ \A k \in (i + 1)..(j - 1) : NonTaperWeeks[k].week_type = "load"
    /\ Len(NonTaperWeeks) < Len(plan.weeks)

\* C26: in a returned plan every taper week is a load week without mesocycle
\* number or position, and with the selected ratio L:R the j-th non-taper
\* week has mesocycle_number = floor((j-1)/(L+R)) + 1 and mesocycle_week =
\* ((j-1) mod (L+R)) + 1 and is a recovery week only if that position
\* exceeds L.
MesocycleWalkSkipsTaper ==
    plan.status = "returned" =>
        /\ \A w \in 1..Len(plan.weeks) :
              plan.weeks[w].phase = "taper" =>
                  /\ plan.weeks[w].week_type = "load"
                  /\ plan.weeks[w].mesocycle_number = Nil
                  /\ plan.weeks[w].mesocycle_week = Nil
        /\ \A j \in 1..Len(NonTaperWeeks) :
              /\ NonTaperWeeks[j].mesocycle_number =
                    ((j - 1) \div (SelectedRatio.load_weeks
                                      + SelectedRatio.recovery_weeks)) + 1
              /\ NonTaperWeeks[j].mesocycle_week =
                    ((j - 1) % (SelectedRatio.load_weeks
                                   + SelectedRatio.recovery_weeks)) + 1
              /\ NonTaperWeeks[j].week_type = "recovery" =>
                    NonTaperWeeks[j].mesocycle_week > SelectedRatio.load_weeks

\* a returned plan that reaches a third mesocycle and ends in a taper week
ThirdMesocycleBeforeTaper ==
    /\ plan.status = "returned"
    /\ \E j \in 1..Len(NonTaperWeeks) : NonTaperWeeks[j].mesocycle_number = 3
    /\ \E j \in 1..Len(NonTaperWeeks) : NonTaperWeeks[j].week_type = "recovery"
    /\ plan.weeks[Len(plan.weeks)].phase = "taper"
    /\ plan.weeks[Len(plan.weeks)].mesocycle_number = Nil

-----------------------------------------------------------------------------
(* Specification of the recovery-week volume multiplier: one methodology    *)
(* and a bounded number of _calculate_recovery_volume_multiplier calls,     *)
(* each on a fragility score of a grid over [0, 1] and a training phase.    *)

MaxRecoveryCalls == 2
GridSteps == 10

\* the fragility scores k / GridSteps, as numerators over ScoreDen
FragilityGrid == { k * (ScoreDen \div GridSteps) : k \in 0..GridSteps }

\* a methodology without periodization_config (the defaults apply) and one
\* with phase-specific deload adjustments
RecoveryConfigs ==
    { m \in PlannerConfigs :
        /\ m.risk_profile.fragility_score = 20
        /\ m.session_type_config.rotation_strategy = "round_robin" }

InitRecovery ==
    /\ methodology \in RecoveryConfigs
    /\ heap = <<>>
    /\ caller = 0
    /\ recovery = <<>>
    /\ hiCalls = <<>>
    /\ phaseCalls = <<>>
    /\ sleepCalls = <<>>
    /\ validation = NoValidation
    /\ ruleCall = NoRuleCall
    /\ lookup = NoLookup
    /\ fragility = NoFragility
    /\ planner = NoPlanner
    /\ plan = NoPlan
    /\ firstPlan = NoPlan
    /\ analyzer = NoAnalyzer
    /\ sens = NoSens
    /\ calls = 0

\* self._calculate_recovery_volume_multiplier(fragility_score, phase)
RecoveryMultiplierCall ==
    /\ Len(recovery) < MaxRecoveryCalls
    /\ \E fragility_score \in FragilityGrid, i \in 1..Len(TrainingPhases) :
          recovery' = Append(recovery,
                             [fragility_score |-> fragility_score,
                              phase |-> TrainingPhases[i],
                              multiplier |-> CalculateRecoveryVolumeMultiplier(
                                                 methodology, fragility_score,
                                                 TrainingPhases[i])])
    /\ UNCHANGED <<methodology, hiCalls, phaseCalls, sleepCalls, heap, caller, validation, ruleCall, lookup, fragility,
                   planner, plan, firstPlan, analyzer, sens, calls>>

NextRecovery == RecoveryMultiplierCall

SpecRecovery == InitRecovery /\ [][NextRecovery]_vars

\* C18: for every fragility score in [0, 1] and every phase the recovery-week
\* volume multiplier lies between the configured volume_multiplier_min and
\* volume_multiplier_max, and of two calls for the same phase the one with
\* the higher fragility score never returns the larger multiplier.
RecoveryMultiplierBoundedAndMonotone ==
    /\ \A i \in 1..Len(recovery) :
          /\ FracLe(Frac(GetPeriodizationConfig(methodology).recovery_week_config
                            .volume_multiplier_min, 100),
                    recovery[i].multiplier)
          /\ FracLe(recovery[i].multiplier,
                    Frac(GetPeriodizationConfig(methodology).recovery_week_config
                            .volume_multiplier_max, 100))
    /\ \A i, j \in 1..Len(recovery) :
          (/\ recovery[i].phase = recovery[j].phase
           /\ recovery[i].fragility_score <= recovery[j].fragility_score)
              => FracLe(recovery[j].multiplier, recovery[i].multiplier)

\* two calls for a phase with a deload adjustment: the higher score gets the
\* smaller multiplier, held at the configured minimum
DeeperDeloadHeldAtMinimum ==
    /\ Len(recovery) = 2
    /\ recovery[1].phase = recovery[2].phase
    /\ recovery[1].phase \in DOMAIN GetPeriodizationConfig(methodology).phase_deload_adjustments
    /\ recovery[1].fragility_score < recovery[2].fragility_score
    /\ FracLt(recovery[2].multiplier, recovery[1].multiplier)
    /\ recovery[2].fragility_score = ScoreDen
    /\ recovery[2].multiplier =
          Frac(GetPeriodizationConfig(methodology).recovery_week_config.volume_multiplier_min,
               100)
-----------------------------------------------------------------------------
(* Further properties of the sensitivity analyzer, under SpecSensitivity.   *)

\* every segment of the dot-separated path names an attribute of the object
\* reached so far, starting from the UserProfile: a sub-model, or a field of
\* a sub-model that is not None
PathResolves(profile, path) ==
    LET parts == Split(path, <<".">>)
    IN  /\ Len(parts) \in {1, 2}
        /\ AttrName(parts[1]) \in SubModels
        /\ Len(parts) = 2 =>
              /\ AttrName(parts[2]) \in DOMAIN profile[AttrName(parts[1])] \ {"present"}
              /\ "present" \in DOMAIN profile[AttrName(parts[1])]
                    => profile[AttrName(parts[1])].present

\* C19: a modify_assumption call whose path has a segment, intermediate or
\* final, that is not an attribute of the object reached so far raises the
\* invalid-path ValueError, in _get_nested_field as in _set_nested_field,
\* returns no SensitivityResult and carries no outcome of a validation, a
\* fragility calculation or a plan generation.
InvalidPathRaisesBeforeAnyAnalysis ==
    (sens.calls >= 1 /\ ~PathResolves(sens.original[1], sens.result.modified_assumption)) =>
        /\ sens.result.status = "raised"
        /\ sens.result.raised = "ValueError"
        /\ GetNestedField(sens.original[1], sens.result.modified_assumption).raised
              = "ValueError"
        /\ SetNestedField(sens.original[1], sens.result.modified_assumption,
                          sens.result.new_value).raised = "ValueError"
        /\ sens.result.new_validation_status = NoResult.new_validation_status
        /\ sens.result.new_violations = NoResult.new_violations
        /\ sens.result.original_fragility = <<>>
        /\ sens.result.new_fragility = <<>>
        /\ sens.result.plan_adjustments = <<>>

\* a call with an absent first segment has raised
AbsentSectionRaised ==
    /\ sens.calls >= 1
    /\ sens.result.status = "raised"
    /\ AttrName(Split(sens.result.modified_assumption, <<".">>)[1]) = ""
    /\ Len(Split(sens.result.modified_assumption, <<".">>)) = 2
\* C20: in every SensitivityResult fragility_delta is new_fragility minus
\* original_fragility when both are present and None when either is absent,
\* new_fragility is None exactly when the modified profile is refused, and
\* fragility_delta is None whenever the baseline or the modified profile is
\* refused.
FragilityDeltaFollowsBothScores ==
    sens.result.status = "returned" =>
        /\ (sens.result.new_fragility # <<>> /\ sens.result.original_fragility # <<>>)
              => sens.result.fragility_delta =
                    << sens.result.new_fragility[1] - sens.result.original_fragility[1] >>
        /\ (sens.result.new_fragility = <<>> \/ sens.result.original_fragility = <<>>)
              => sens.result.fragility_delta = <<>>
        /\ sens.result.new_fragility = <<>>
              <=> sens.result.new_validation_status = "refused"
        /\ (\/ sens.result.original_validation_status = "refused"
            \/ sens.result.new_validation_status = "refused")
              => sens.result.fragility_delta = <<>>

\* a refused baseline whose modification is accepted: a new score without a
\* delta
NewScoreWithoutDelta ==
    /\ sens.result.status = "returned"
    /\ sens.result.original_validation_status = "refused"
    /\ sens.result.new_validation_status # "refused"
    /\ sens.result.new_fragility # <<>>
    /\ sens.result.fragility_delta = <<>>
\* base_fragility + sum of weight_i * penalty_i for a profile, before any
\* clamp, as a numerator over ScoreDen
RawFragility(m, user_profile) ==
    m.risk_profile.fragility_score * PenaltyDen
        + SumSeq([i \in 1..Len(Factors) |->
                    WeightOf(m.risk_profile.fragility_calculation_weights[1], Factors[i])
                        * Penalties(user_profile)[i]])

\* neither the score of the profile nor that of the scenario is clamped
NeitherClamped(m, user_profile, scenario) ==
    /\ RawFragility(m, user_profile) >= 0 /\ RawFragility(m, user_profile) <= ScoreDen
    /\ RawFragility(m, scenario) >= 0 /\ RawFragility(m, scenario) <= ScoreDen

\* low < moderate < high
StressRank(stress_level) ==
    CASE stress_level = "low" -> 1 [] stress_level = "moderate" -> 2 [] OTHER -> 3

\* the profile of the last what-if scenario: the baseline with the one field
\* set
Scenario ==
    SetNestedField(sens.original[1], sens.result.modified_assumption,
                   sens.result.new_value).obj

\* C21: when the baseline and the scenario are both approved, a scenario
\* that raises sleep_hours never has fragility_delta > 0 and has
\* fragility_delta < 0 when the original sleep is below 8.0, the sleep
\* weight is positive and neither score is clamped; a scenario that raises
\* stress_level never has fragility_delta < 0 and has fragility_delta > 0
\* when the stress weight is positive and neither score is clamped.
FragilityRespondsMonotonically ==
    (sens.result.status = "returned" /\ sens.result.fragility_delta # <<>>) =>
        /\ (/\ sens.result.modified_assumption = <<"c","u","r","r","e","n","t","_","s","t","a","t","e",".","s","l","e","e","p","_","h","o","u","r","s">>
            /\ Scenario.current_state.sleep_hours
                  > sens.original[1].current_state.sleep_hours) =>
              /\ sens.result.fragility_delta[1] <= 0
              /\ (/\ sens.original[1].current_state.sleep_hours < 80
                  /\ WeightOf(methodology.risk_profile.fragility_calculation_weights[1],
                              "sleep_deviation") > 0
                  /\ NeitherClamped(methodology, sens.original[1], Scenario))
                    => sens.result.fragility_delta[1] < 0
        /\ (/\ sens.result.modified_assumption = <<"c","u","r","r","e","n","t","_","s","t","a","t","e",".","s","t","r","e","s","s","_","l","e","v","e","l">>
            /\ StressRank(Scenario.current_state.stress_level)
                  > StressRank(sens.original[1].current_state.stress_level)) =>
              /\ sens.result.fragility_delta[1] >= 0
              /\ (/\ WeightOf(methodology.risk_profile.fragility_calculation_weights[1],
                              "stress_multiplier") > 0
                  /\ NeitherClamped(methodology, sens.original[1], Scenario))
                    => sens.result.fragility_delta[1] > 0

\* a scenario that raised the stress level of an approved baseline and got a
\* positive fragility_delta
StressRaisedScoreRose ==
    /\ sens.result.status = "returned"
    /\ sens.result.modified_assumption = <<"c","u","r","r","e","n","t","_","s","t","a","t","e",".","s","t","r","e","s","s","_","l","e","v","e","l">>
    /\ sens.original[1].current_state.stress_level = "low"
    /\ Scenario.current_state.stress_level = "moderate"
    /\ sens.result.fragility_delta # <<>>
    /\ sens.result.fragility_delta[1] > 0
-----------------------------------------------------------------------------
(* Specification of the sleep-deviation penalty: a bounded number of        *)
(* _calculate_sleep_deviation_penalty calls, each on a profile whose        *)
(* sleep_hours is a tenth of an hour between 0 and MaxSleepTenths.          *)

MaxSleepCalls == 2
MaxSleepTenths == 120

\* a profile with the given sleep_hours, in tenths
ProfileSleeping(sleep_hours) ==
    Profile(CurrentState(sleep_hours, FALSE, "low", 100, 8, "stable", FALSE),
            Goals("race_performance", "olympic", 12), TrainingHistory(TRUE, 50),
            Constraints(TRUE, 6), Preferences(TRUE, "saturday", "monday"))

InitSleep ==
    /\ methodology = CHOOSE m \in FragilityConfigs : TRUE
    /\ heap = <<>>
    /\ caller = 0
    /\ recovery = <<>>
    /\ hiCalls = <<>>
    /\ phaseCalls = <<>>
    /\ sleepCalls = <<>>
    /\ validation = NoValidation
    /\ ruleCall = NoRuleCall
    /\ lookup = NoLookup
    /\ fragility = NoFragility
    /\ planner = NoPlanner
    /\ plan = NoPlan
    /\ firstPlan = NoPlan
    /\ analyzer = NoAnalyzer
    /\ sens = NoSens
    /\ calls = 0

\* self._calculate_sleep_deviation_penalty(user_profile)
SleepDeviationPenaltyCall ==
    /\ Len(sleepCalls) < MaxSleepCalls
    /\ \E sleep_hours \in 0..MaxSleepTenths :
          sleepCalls' = Append(sleepCalls,
                               [sleep_hours |-> sleep_hours,
                                penalty |-> SleepDeviationPenalty(
                                                ProfileSleeping(sleep_hours))])
    /\ UNCHANGED <<methodology, hiCalls, phaseCalls, heap, caller, validation, ruleCall, lookup, fragility,
                   planner, plan, firstPlan, analyzer, sens, calls, recovery>>

NextSleep == SleepDeviationPenaltyCall

SpecSleep == InitSleep /\ [][NextSleep]_vars

\* C22: the sleep-deviation penalty lies in [0, 1], is 0 from 8.0 hours on,
\* is strictly decreasing in sleep_hours on [7.0, 8.0), and below 7.0 is
\* strictly greater than at 7.0 and never rises as sleep rises toward 7.0.
SleepPenaltyShape ==
    /\ \A i \in 1..Len(sleepCalls) :
          /\ sleepCalls[i].penalty >= 0
          /\ sleepCalls[i].penalty <= PenaltyDen
          /\ sleepCalls[i].sleep_hours >= 80 => sleepCalls[i].penalty = 0
    /\ \A i, j \in 1..Len(sleepCalls) :
          /\ (/\ 70 <= sleepCalls[i].sleep_hours
              /\ sleepCalls[i].sleep_hours < sleepCalls[j].sleep_hours
              /\ sleepCalls[j].sleep_hours < 80)
                => sleepCalls[i].penalty > sleepCalls[j].penalty
          /\ (sleepCalls[i].sleep_hours < 70 /\ sleepCalls[j].sleep_hours = 70)
                => sleepCalls[i].penalty > sleepCalls[j].penalty
          /\ (/\ sleepCalls[i].sleep_hours <= sleepCalls[j].sleep_hours
              /\ sleepCalls[j].sleep_hours <= 70)
                => sleepCalls[i].penalty >= sleepCalls[j].penalty

\* a call just below 7.0 hours followed by one at 7.0: the first penalty is
\* the larger, by the squared term alone
JustBelowMinimumAboveMinimum ==
    /\ Len(sleepCalls) = 2
    /\ sleepCalls[1].sleep_hours = 69
    /\ sleepCalls[2].sleep_hours = 70
    /\ sleepCalls[2].penalty = PenaltyDen \div 8
    /\ sleepCalls[1].penalty > sleepCalls[2].penalty
-----------------------------------------------------------------------------
(* Further properties of the fragility calculator, under SpecFragility.     *)

\* the recommendations specific to each factor, in the order of Factors
FactorRecommendations ==
    << {"increase_sleep", "optimize_sleep"}, {"manage_stress"},
       {"increase_volume", "reduce_volume", "consistent_volume"}, {"short_timeline"},
       {"recent_illness", "hrv_decreasing", "track_hrv"} >>

\* the unweighted penalty of factor i of the profile exceeds the factor's
\* threshold: 0.2 for the first three factors, 0.4 for the last two
ExceedsThreshold(i) ==
    10 * Penalties(heap[caller])[i] > (IF i <= 3 THEN 2 ELSE 4) * PenaltyDen

\* C23: the recommendations calculate() returns hold, for each factor whose
\* unweighted penalty exceeds its threshold, at least one recommendation
\* specific to that factor, and hold the maintenance recommendation if and
\* only if no factor exceeds its threshold.
EveryExceedingFactorIsAddressed ==
    fragility.status = "returned" =>
        /\ \A i \in 1..Len(Factors) :
              ExceedsThreshold(i) =>
                  \E k \in 1..Len(fragility.recommendations) :
                      fragility.recommendations[k] \in FactorRecommendations[i]
        /\ (\E k \in 1..Len(fragility.recommendations) :
                fragility.recommendations[k] = "maintain")
              <=> (\A i \in 1..Len(Factors) : ~ExceedsThreshold(i))
-----------------------------------------------------------------------------
(* Specification of the phase allocation: one methodology and one           *)
(* _determine_phases call on a plan length between 1 and MaxPlanWeeks and a *)
(* profile with or without volume_consistency_weeks.                        *)

MaxPhaseCalls == 1
MaxPlanWeeks == 52

\* a profile with the given volume_consistency_weeks
ProfileConsistent(consistency_weeks) ==
    Profile(CurrentState(72, FALSE, "low", 100, consistency_weeks, "stable", FALSE),
            Goals("race_performance", "olympic", Nil), TrainingHistory(TRUE, 50),
            Constraints(TRUE, 6), Preferences(TRUE, "saturday", "monday"))

InitPhases ==
    /\ methodology \in RecoveryConfigs
    /\ heap = <<>>
    /\ caller = 0
    /\ recovery = <<>>
    /\ hiCalls = <<>>
    /\ sleepCalls = <<>>
    /\ phaseCalls = <<>>
    /\ validation = NoValidation
    /\ ruleCall = NoRuleCall
    /\ lookup = NoLookup
    /\ fragility = NoFragility
    /\ planner = NoPlanner
    /\ plan = NoPlan
    /\ firstPlan = NoPlan
    /\ analyzer = NoAnalyzer
    /\ sens = NoSens
    /\ calls = 0

\* self._determine_phases(weeks_to_race, user_profile)
DeterminePhasesCall ==
    /\ Len(phaseCalls) < MaxPhaseCalls
    /\ \E weeks_to_race \in 1..MaxPlanWeeks, consistency_weeks \in {Nil, 0, 2, 4, 8} :
          \E outcome \in { DeterminePhases(methodology, weeks_to_race,
                                           ProfileConsistent(consistency_weeks)) } :
              phaseCalls' = Append(phaseCalls,
                                   [weeks_to_race |-> weeks_to_race,
                                    volume_consistency_weeks |-> consistency_weeks,
                                    raised |-> outcome.raised,
                                    phases |-> outcome.phases])
    /\ UNCHANGED <<methodology, hiCalls, heap, caller, validation, ruleCall, lookup, fragility,
                   planner, plan, firstPlan, analyzer, sens, calls, recovery, sleepCalls>>

NextPhases == DeterminePhasesCall

SpecPhases == InitPhases /\ [][NextPhases]_vars

\* the week count int(weeks_to_race * percent) raised to the configured
\* minimum; percent in hundredths
TruncatedWeeks(weeks_to_race, percent, minimum) ==
    Max(minimum, (weeks_to_race * percent) \div 100)

\* the base extension a call is granted for low volume consistency
ExtensionOf(call) ==
    IF call.volume_consistency_weeks
          < methodology.phase_distribution_config.volume_consistency_threshold
    THEN methodology.phase_distribution_config.base_extension_weeks ELSE 0

\* C24: the base, build, peak and taper week counts a phase allocation
\* returns sum to the plan's total weeks, and only the build phase differs
\* from its allocation: base, peak and taper keep the counts they were given
\* before the totals were reconciled.
PhaseWeeksSumToTotal ==
    \A i \in 1..Len(phaseCalls) :
        phaseCalls[i].raised = "" =>
            /\ phaseCalls[i].phases.base + phaseCalls[i].phases.build
                  + phaseCalls[i].phases.peak + phaseCalls[i].phases.taper
                  = phaseCalls[i].weeks_to_race
            /\ phaseCalls[i].phases.base =
                  TruncatedWeeks(phaseCalls[i].weeks_to_race,
                                 GetPhasePercentages(methodology,
                                     phaseCalls[i].weeks_to_race).base_percent,
                                 GetPhasePercentages(methodology,
                                     phaseCalls[i].weeks_to_race).min_base_weeks)
                     + ExtensionOf(phaseCalls[i])
            /\ phaseCalls[i].phases.peak =
                  TruncatedWeeks(phaseCalls[i].weeks_to_race,
                                 GetPhasePercentages(methodology,
                                     phaseCalls[i].weeks_to_race).peak_percent,
                                 GetPhasePercentages(methodology,
                                     phaseCalls[i].weeks_to_race).min_peak_weeks)
            /\ phaseCalls[i].phases.taper =
                  TruncatedWeeks(phaseCalls[i].weeks_to_race,
                                 GetPhasePercentages(methodology,
                                     phaseCalls[i].weeks_to_race).taper_percent,
                                 GetPhasePercentages(methodology,
                                     phaseCalls[i].weeks_to_race).min_taper_weeks)

\* an allocation whose phases summed to more than the plan length, so that
\* the build phase gave weeks back
BuildAbsorbedSurplus ==
    /\ Len(phaseCalls) = 1
    /\ phaseCalls[1].raised = ""
    /\ phaseCalls[1].weeks_to_race = 5
    /\ phaseCalls[1].volume_consistency_weeks = 2
    /\ phaseCalls[1].phases.base + phaseCalls[1].phases.peak + phaseCalls[1].phases.taper
          >= phaseCalls[1].weeks_to_race
    /\ phaseCalls[1].phases.base + phaseCalls[1].phases.build
          + phaseCalls[1].phases.peak + phaseCalls[1].phases.taper = 5
\* the percentage table of the bucket a plan length falls in
BucketTable(total_weeks) ==
    IF total_weeks <= 6 THEN methodology.phase_distribution_config.short_plan_phases
    ELSE IF total_weeks <= 12 THEN methodology.phase_distribution_config.medium_plan_phases
    ELSE methodology.phase_distribution_config.long_plan_phases

\* max(configured minimum, round(total_weeks x percent)), the product rounded
\* to the nearest integer; percent in hundredths
RoundedWeeks(total_weeks, percent, minimum) ==
    Max(minimum, Round(Frac(total_weeks * percent, 100)))

\* C25: a phase allocation takes the short table for plans of at most 6
\* weeks, the medium table for at most 12 and the long table otherwise, and
\* its peak and taper counts, and its base count before the consistency
\* extension, are max(configured minimum, round(total_weeks x percent)) with
\* the product rounded to the nearest integer.
PhaseWeeksAreRoundedProducts ==
    \A i \in 1..Len(phaseCalls) :
        phaseCalls[i].raised = "" =>
            /\ phaseCalls[i].phases.base - ExtensionOf(phaseCalls[i]) =
                  RoundedWeeks(phaseCalls[i].weeks_to_race,
                               BucketTable(phaseCalls[i].weeks_to_race).base_percent,
                               BucketTable(phaseCalls[i].weeks_to_race).min_base_weeks)
            /\ phaseCalls[i].phases.peak =
                  RoundedWeeks(phaseCalls[i].weeks_to_race,
                               BucketTable(phaseCalls[i].weeks_to_race).peak_percent,
                               BucketTable(phaseCalls[i].weeks_to_race).min_peak_weeks)
            /\ phaseCalls[i].phases.taper =
                  RoundedWeeks(phaseCalls[i].weeks_to_race,
                               BucketTable(phaseCalls[i].weeks_to_race).taper_percent,
                               BucketTable(phaseCalls[i].weeks_to_race).min_taper_weeks)
-----------------------------------------------------------------------------
(* Specification of the high-intensity day selector: one                    *)
(* _select_spaced_hi_days call on each set of weekdays, given in week order *)
(* or in reverse, and each session count up to MaxHiSessions.               *)

MaxHiCalls == 1
MaxHiSessions == 4

\* the days of a set as a list in week order
InWeekOrder(days) == SelectSeq(Weekdays, LAMBDA day : day \in days)

\* a list back to front
Reversed(s) == [i \in 1..Len(s) |-> s[Len(s) + 1 - i]]

InitHiDays ==
    /\ methodology \in RecoveryConfigs
    /\ heap = <<>>
    /\ caller = 0
    /\ recovery = <<>>
    /\ sleepCalls = <<>>
    /\ phaseCalls = <<>>
    /\ hiCalls = <<>>
    /\ validation = NoValidation
    /\ ruleCall = NoRuleCall
    /\ lookup = NoLookup
    /\ fragility = NoFragility
    /\ planner = NoPlanner
    /\ plan = NoPlan
    /\ firstPlan = NoPlan
    /\ analyzer = NoAnalyzer
    /\ sens = NoSens
    /\ calls = 0

\* self._select_spaced_hi_days(available_days, num_hi_sessions)
SelectSpacedHiDaysCall ==
    /\ Len(hiCalls) < MaxHiCalls
    /\ \E days \in SUBSET { Weekdays[i] : i \in 1..7 }, num_hi_sessions \in 0..MaxHiSessions :
          \E available_days \in { InWeekOrder(days), Reversed(InWeekOrder(days)) } :
              hiCalls' = Append(hiCalls,
                                [available_days |-> available_days,
                                 num_hi_sessions |-> num_hi_sessions,
                                 selected |-> SelectSpacedHiDays(available_days,
                                                                 num_hi_sessions, 2)])
    /\ UNCHANGED <<methodology, heap, caller, validation, ruleCall, lookup, fragility,
                   planner, plan, firstPlan, analyzer, sens, calls, recovery, sleepCalls,
                   phaseCalls>>

NextHiDays == SelectSpacedHiDaysCall

SpecHiDays == InitHiDays /\ [][NextHiDays]_vars

\* the days of a list are pairwise at least two weekday positions apart
SpacedByTwo(days) ==
    \A a, b \in 1..Len(days) :
        a # b => \/ DayOrder(days[a]) - DayOrder(days[b]) >= 2
                 \/ DayOrder(days[b]) - DayOrder(days[a]) >= 2

\* the given days hold count days that are pairwise at least two positions
\* apart
HoldsSpaced(available_days, count) ==
    \E chosen \in SUBSET { available_days[i] : i \in 1..Len(available_days) } :
        /\ Cardinality(chosen) = count
        /\ SpacedByTwo(InWeekOrder(chosen))

\* C27: asked for N >= 2 days, the selector returns min(N, number of days)
\* pairwise distinct days out of the given ones, and these are pairwise at
\* least two weekday positions apart whenever the given days hold N such
\* days; asked for one day it returns Tuesday, else Wednesday, else Thursday
\* when given, else the earliest given day.
SelectorSpacesHiDays ==
    \A i \in 1..Len(hiCalls) :
        /\ hiCalls[i].num_hi_sessions >= 2 =>
              /\ Len(hiCalls[i].selected)
                    = Min(hiCalls[i].num_hi_sessions, Len(hiCalls[i].available_days))
              /\ \A a, b \in 1..Len(hiCalls[i].selected) :
                    a # b => hiCalls[i].selected[a] # hiCalls[i].selected[b]
              /\ \A a \in 1..Len(hiCalls[i].selected) :
                    InSeq(hiCalls[i].selected[a], hiCalls[i].available_days)
              /\ HoldsSpaced(hiCalls[i].available_days, hiCalls[i].num_hi_sessions)
                    => SpacedByTwo(hiCalls[i].selected)
        /\ hiCalls[i].num_hi_sessions = 1 /\ hiCalls[i].available_days # <<>> =>
              hiCalls[i].selected =
                  IF InSeq("tuesday", hiCalls[i].available_days) THEN << "tuesday" >>
                  ELSE IF InSeq("wednesday", hiCalls[i].available_days)
                       THEN << "wednesday" >>
                  ELSE IF InSeq("thursday", hiCalls[i].available_days)
                       THEN << "thursday" >>
                  ELSE << InWeekOrder({ hiCalls[i].available_days[k] :
                                          k \in 1..Len(hiCalls[i].available_days) })[1] >>

\* three days asked of five that hold three spaced days but start with two
\* adjacent ones, given back to front
SpacedDaysFoundPastAdjacentOnes ==
    /\ Len(hiCalls) = 1
    /\ hiCalls[1].available_days = << "sunday", "friday", "wednesday", "tuesday", "monday" >>
    /\ hiCalls[1].num_hi_sessions = 3
    /\ hiCalls[1].selected = << "monday", "wednesday", "friday" >>
-----------------------------------------------------------------------------
(* Further properties of the validator, under SpecValidator.                *)

\* validate() under the same exclusion criteria and no assumptions at all
VerdictWithoutAssumptions ==
    Validate([methodology EXCEPT !.assumptions = <<>>], heap[caller])

\* C28: the verdict of validate() follows from the exclusion criteria alone:
\* whatever the assumption rules are, approved and the final status are the
\* ones the same criteria give without any assumption, also when assumption
\* checks have passed = False.
VerdictIndependentOfAssumptions ==
    validation.status # "none" =>
        /\ validation.status = VerdictWithoutAssumptions.status
        /\ validation.approved = VerdictWithoutAssumptions.approved
        /\ validation.result = VerdictWithoutAssumptions.result

\* a profile approved although one of its assumption checks failed
ApprovedWithFailedAssumption ==
    /\ validation.status = "returned"
    /\ validation.approved
    /\ \E i \in 1..Len(validation.checks) : ~validation.checks[i].passed
-----------------------------------------------------------------------------
(* Further properties of the threshold evaluator, under SpecRules.          *)

\* a threshold that is bare true/false or starts with a comparison prefix
IsSimpleForm(expr) ==
    \/ Lower(expr) \in { <<"t","r","u","e">>, <<"f","a","l","s","e">> }
    \/ \E prefix \in { <<"<"," ">>, <<"<","="," ">>, <<">"," ">>, <<">","="," ">>, <<"=","="," ">> } : StartsWith(expr, prefix)

\* a threshold that starts with a numeric comparison prefix
IsNumericForm(expr) ==
    \E prefix \in { <<"<"," ">>, <<"<","="," ">>, <<">"," ">>, <<">","="," ">> } : StartsWith(expr, prefix)

\* the sub-expressions of an OR threshold
SubExpressions(expr) ==
    LET parts == Split(Strip(expr), OrSep)
    IN  { Strip(parts[i]) : i \in 1..Len(parts) }

\* C29: the threshold evaluator fails open: a threshold of none of the
\* supported forms, and a numeric comparison against the value None, is
\* evaluated to not triggered, and an OR threshold triggers exactly when at
\* least one of its sub-expressions triggers.
ThresholdsFailOpen ==
    ruleCall.kind = "threshold" =>
        /\ (~Contains(Strip(ruleCall.text), OrSep) /\ ~IsSimpleForm(Strip(ruleCall.text)))
              => ruleCall.outcome = GateResult(FALSE)
        /\ (IsNumericForm(Strip(ruleCall.text)) /\ ruleCall.user_value = NoneV)
              => ~ruleCall.outcome.triggered
        /\ Contains(Strip(ruleCall.text), OrSep)
              => (ruleCall.outcome.triggered
                    <=> \E part \in SubExpressions(ruleCall.text) :
                           EvaluateThreshold(part, ruleCall.user_value).triggered)
-----------------------------------------------------------------------------
(* Phase allocation and phase labels of the generated plan, under           *)
(* SpecPlanner.                                                             *)

\* the phase durations _determine_phases recorded for a returned plan
AllocatedPhases ==
    plan.plan_decisions[CHOOSE i \in 1..Len(plan.plan_decisions) :
        plan.plan_decisions[i].decision_point = "Training Phase Distribution"].outcome

\* the position of a phase in the order base, build, peak, taper
PhaseRank(phase) == CHOOSE p \in 1..Len(TrainingPhases) : TrainingPhases[p] = phase

\* C30: in a returned plan every phase was allocated at least one week, the
\* number of weeks labelled with each phase equals the allocated count, and
\* the phases appear in the order base, build, peak, taper.
EveryPhaseAllocatedAndLabelled ==
    plan.status = "returned" =>
        /\ AllocatedPhases.base >= 1 /\ AllocatedPhases.build >= 1
        /\ AllocatedPhases.peak >= 1 /\ AllocatedPhases.taper >= 1
        /\ GetPhaseBreakdown(plan)[PhaseRank("base")] = AllocatedPhases.base
        /\ GetPhaseBreakdown(plan)[PhaseRank("build")] = AllocatedPhases.build
        /\ GetPhaseBreakdown(plan)[PhaseRank("peak")] = AllocatedPhases.peak
        /\ GetPhaseBreakdown(plan)[PhaseRank("taper")] = AllocatedPhases.taper
        /\ \A i, j \in 1..Len(plan.weeks) :
              i < j => PhaseRank(plan.weeks[i].phase) <= PhaseRank(plan.weeks[j].phase)

====
